---- MODULE Spec2Model ----
(***************************************************************************)
(* State-machine model of the banking demo's server routers                *)
(* (src/server/routers/auth.ts: authRouter and accountRouter).             *)
(*                                                                         *)
(* Every handler is split at its `await`s on the store: one action per     *)
(* store operation, together with the synchronous code that follows it.    *)
(* Two request processes run handlers; under SpecSeq a handler runs to     *)
(* completion before the next one starts, under Spec the store operations  *)
(* of two handlers interleave.                                             *)
(***************************************************************************)
EXTENDS Integers, Sequences, FiniteSets, TLC

(***************************************************************************)
(* Bounds of the model.                                                    *)
(***************************************************************************)
MaxUsers == 2
MaxAccounts == 2
MaxTx == 2
AcctNumSpace == 2

Procs == {"p1", "p2"}

\* Wall-clock instants (milliseconds) the model's clock can take.
Instants == {0, 400, 604710000}

\* Raw email inputs, as character sequences.
Emails == { <<"a", "@", "x", ".", "i", "o">>,
            <<"A", "@", "x", ".", "i", "o">>,
            <<"b", "@", "x", ".", "i", "o">> }

\* Passwords offered to signup (they meet its complexity rules) and to login.
SignupPasswords == {"Aa1!good!"}
Passwords == {"Aa1!good!", "Bb2?good?"}

\* Deposit amounts offered to fundAccount, as decimal literals in hundredths
\* (10 is the JSON number 0.1, 20 is 0.2).
AmountCents == {10, 20}

\* Funding source types, as character sequences.
CardFunding == <<"c", "a", "r", "d">>
BankFunding == <<"b", "a", "n", "k">>
FundingTypes == {CardFunding}
AccountTypes == {"checking", "savings"}

\* Dates of birth offered to signup: an adult, three birthdays around the
\* clock's range eighteen years on, a child, tomorrow, a far future date and
\* a string that is no date.
DobInputs == { <<1990, 1, 1>>, <<2008, 10, 30>>, <<2008, 10, 31>>, <<2008, 11, 6>>,
               <<2016, 1, 1>>, <<2026, 10, 31>>, <<2999, 1, 1>>, <<0, 0, 0>> }

\* State values offered to signup.
StateInputs == { <<"N", "J">>, <<"n", "j">>, <<"X", "X">>, <<"N">>, <<"1", "!">> }

\* Offsets of the server's time zone from UTC, in minutes east of UTC.
Zones == {-300, 0}

\* Card numbers, as character sequences: the card of the funding test, a
\* number that fails the Luhn check, the test card typed in groups of four,
\* a Luhn-valid number of no brand.
TestCard == <<"4", "2", "4", "2", "4", "2", "4", "2", "4", "2", "4", "2", "4", "2", "4", "2">>
BadLuhnCard == <<"1", "2", "3", "4", "5", "6", "7", "8", "9", "0", "1", "2", "3", "4", "5", "6">>
SpacedCard == <<"4", "2", "4", "2", " ", "4", "2", "4", "2", " ", "4", "2", "4", "2", " ", "4", "2", "4", "2">>
NoBrandCard == <<"9", "0", "0", "0", "0", "0", "0", "0", "0", "0", "0", "0", "0", "0", "0", "1">>

\* Leading digits and lengths of the card numbers given to detectCardType:
\* each brand's prefixes with their neighbours, at every length around the
\* lengths the patterns accept, filled with zeros and closed by each of the
\* ten digits, so that one number of every ten passes the Luhn check.
CardPrefixes ==
  {<<"4">>,
   <<"5", "0">>,
   <<"5", "1">>,
   <<"5", "5">>,
   <<"5", "6">>,
   <<"2", "2", "2", "0">>,
   <<"2", "2", "2", "1">>,
   <<"2", "5", "0", "0">>,
   <<"2", "7", "2", "0">>,
   <<"2", "7", "2", "1">>,
   <<"3", "4">>,
   <<"3", "6">>,
   <<"3", "7">>,
   <<"6", "0", "1", "1">>,
   <<"6", "0", "1", "2">>,
   <<"6", "4", "3">>,
   <<"6", "4", "4">>,
   <<"6", "4", "9">>,
   <<"6", "5">>,
   <<"3", "5", "2", "7">>,
   <<"3", "5", "2", "8">>,
   <<"3", "5", "8", "9">>,
   <<"3", "5", "9", "0">>,
   <<"9">>}
CardInputs ==
  { prefix \o [i \in 1..(n - 1 - Len(prefix)) |-> "0"] \o <<check>> :
      prefix \in CardPrefixes, n \in 12..20,
      check \in {"0", "1", "2", "3", "4", "5", "6", "7", "8", "9"} }

\* Inputs of passesLuhn. Digit strings: a repeated pattern of every length
\* around the accepted ones, closed by each of the ten digits, so that
\* exactly one of the ten has a sum divisible by 10. Other inputs: the
\* empty string, numbers typed with spaces, tabs and line breaks, a 12-digit
\* number followed by a space, and numbers with a dash, a letter, a dot or
\* a sign.
LuhnInputs ==
  { [i \in 1..(n - 1) |-> pattern[((i - 1) % Len(pattern)) + 1]] \o <<check>> :
      pattern \in {<<"4", "2">>,
                   <<"7", "9", "9", "2", "7", "3", "9", "8", "7", "1">>,
                   <<"0">>},
      n \in 12..20,
      check \in {"0", "1", "2", "3", "4", "5", "6", "7", "8", "9"} }
  \cup
  {<<>>,
   <<"4", "2", "4", "2", " ", "4", "2", "4", "2", " ", "4", "2", "4", "2", " ", "4", "2", "4", "2">>,
   <<" ", "4", "2", "4", "2", "4", "2", "4", "2", "4", "2", "4", "2", "4", "2", "4", "2", " ">>,
   <<"4", "2", "4", "2", "\t", "4", "2", "4", "2", "\n", "4", "2", "4", "2", " ", "4", "2", "4", "2">>,
   <<"4", "1", "2", "3", " ", "4", "5", "6", "7", " ", "8", "9", "0", "1", " ", "2", "3", "4", "5", " ", "6", "7", "7">>,
   <<"4", "2", "4", "2", "4", "2", "4", "2", "4", "2", "4", "2", " ">>,
   <<"4", "2", "4", "2", "-", "4", "2", "4", "2", "-", "4", "2", "4", "2", "-", "4", "2", "4", "2">>,
   <<"4", "2", "4", "2", "4", "2", "4", "2", "4", "2", "4", "2", "4", "2", "4", "x">>,
   <<"4", "2", "4", "2", "4", "2", "4", "2", "4", "2", "4", "2", "4", "2", "4", "2", ".">>,
   <<"+", "4", "2", "4", "2", "4", "2", "4", "2", "4", "2", "4", "2", "4", "2", "4", "2">>,
   <<" ", " ", " ", " ", " ", " ", " ", " ", " ", " ", " ", " ", " ">>,
   <<"a", "b", "c", "d", "e", "f", "g", "h", "i", "j", "k", "l", "m", "n", "o", "p">>}

(***************************************************************************)
(* Program constants.                                                      *)
(***************************************************************************)
SessionDays == 7
MsPerDay == 86400000
SafetyWindowMs == 90000
AccountNumberWidth == 10
MantissaBits == 53
MinimumAge == 18
StateCodeLength == 2

(***************************************************************************)
(* IEEE-754 double arithmetic of JavaScript numbers (positive values).     *)
(* A double is [m, e]: m is its 53-bit significand, most significant bit   *)
(* first, and its value is m * 2^e.  Zero is the empty significand.        *)
(***************************************************************************)
Min(a, b) == IF a <= b THEN a ELSE b
Max(a, b) == IF a >= b THEN a ELSE b

Zeros(n) == [i \in 1..n |-> 0]

DZero == [m |-> <<>>, e |-> 0]

RECURSIVE IntBits(_)
IntBits(n) == IF n = 0 THEN <<>> ELSE Append(IntBits(n \div 2), n % 2)

\* Sum of two equally long bit strings and a carry-in, by halves.
RECURSIVE AddFixed(_, _, _)
AddFixed(a, b, c) ==
  LET n == Len(a)
  IN IF n = 0 THEN [bits |-> <<>>, carry |-> c]
     ELSE IF n = 1
     THEN [bits |-> <<(a[1] + b[1] + c) % 2>>, carry |-> (a[1] + b[1] + c) \div 2]
     ELSE LET h == n \div 2
              lo == AddFixed(SubSeq(a, h + 1, n), SubSeq(b, h + 1, n), c)
              hi == IF lo.carry = 1
                    THEN AddFixed(SubSeq(a, 1, h), SubSeq(b, 1, h), 1)
                    ELSE AddFixed(SubSeq(a, 1, h), SubSeq(b, 1, h), 0)
          IN [bits |-> hi.bits \o lo.bits, carry |-> hi.carry]

AddBits(a, b, c) ==
  LET s == AddFixed(a, b, c)
  IN IF s.carry = 1 THEN <<1>> \o s.bits ELSE s.bits

PadLeft(a, n) == Zeros(n - Len(a)) \o a

\* Round an exact significand of any length to 53 bits, ties to even.
RoundToDouble(v) ==
  LET L == Len(v.m)
      d == L - MantissaBits
  IN IF L = 0 THEN DZero
     ELSE IF d <= 0 THEN [m |-> v.m \o Zeros(0 - d), e |-> v.e + d]
     ELSE LET kept == SubSeq(v.m, 1, MantissaBits)
              half == v.m[MantissaBits + 1] = 1
              sticky == \E i \in (MantissaBits + 2)..L : v.m[i] = 1
              up == half /\ (sticky \/ kept[MantissaBits] = 1)
              inc == IF up
                     THEN AddBits(kept, Zeros(MantissaBits - 1) \o <<1>>, 0)
                     ELSE kept
          IN IF Len(inc) > MantissaBits
             THEN [m |-> SubSeq(inc, 1, MantissaBits), e |-> v.e + d + 1]
             ELSE [m |-> inc, e |-> v.e + d]

\* The exact (unrounded) sum of two doubles, as a significand of any length.
ExactSum(x, y) ==
  IF x.m = <<>> THEN y
  ELSE IF y.m = <<>> THEN x
  ELSE LET e == Min(x.e, y.e)
           X == x.m \o Zeros(x.e - e)
           Y == y.m \o Zeros(y.e - e)
           n == Max(Len(X), Len(Y))
       IN [m |-> AddBits(PadLeft(X, n), PadLeft(Y, n), 0), e |-> e]

\* JavaScript's x + y on numbers.
FAdd(x, y) == RoundToDouble(ExactSum(x, y))

\* 2^k modulo 100, by repeated squaring.
RECURSIVE Pow2Mod(_)
Pow2Mod(k) ==
  IF k = 0 THEN 1
  ELSE LET h == Pow2Mod(k \div 2)
       IN (h * h * (IF k % 2 = 1 THEN 2 ELSE 1)) % 100

\* The first k binary digits of the fraction r/100, with the remainder left.
FracBits(r, k) ==
  [bits |-> [i \in 1..k |-> (2 * ((r * Pow2Mod(i - 1)) % 100)) \div 100],
   rem |-> (r * Pow2Mod(k)) % 100]

\* Number of zero digits that open the binary expansion of r/100 (1 <= r < 100).
LeadZeros(r) == Cardinality({k \in 1..7 : r * (2 ^ k) < 100})

\* The double a decimal literal c/100 parses to (nearest double, ties to
\* even): the JSON number the request carries.
FromCents(c) ==
  LET I == IntBits(c \div 100)
      r == c % 100
      z == IF I = <<>> /\ r > 0 THEN LeadZeros(r) ELSE 0
      skip == FracBits(r, z)
      k == MantissaBits + 1 - Len(I)
      f == FracBits(skip.rem, IF k > 0 THEN k ELSE 0)
      sticky == IF f.rem > 0 THEN 1 ELSE 0
  IN IF c = 0 THEN DZero
     ELSE RoundToDouble([m |-> I \o f.bits \o <<sticky>>,
                         e |-> 0 - (z + Len(f.bits) + 1)])

\* Two significand/exponent pairs denote the same real number.
Normal(v) ==
  IF \A i \in 1..Len(v.m) : v.m[i] = 0 THEN DZero
  ELSE LET last == CHOOSE i \in 1..Len(v.m) :
                     v.m[i] = 1 /\ \A j \in (i + 1)..Len(v.m) : v.m[j] = 0
       IN [m |-> SubSeq(v.m, 1, last), e |-> v.e + (Len(v.m) - last)]

SameValue(a, b) == Normal(a) = Normal(b)

(***************************************************************************)
(* Strings of the program: emails and account numbers are character        *)
(* sequences, so that toLowerCase and padStart are computed.               *)
(***************************************************************************)
UpperLetters == <<"A", "B", "C", "D", "E", "F", "G", "H", "I", "J", "K", "L", "M",
                  "N", "O", "P", "Q", "R", "S", "T", "U", "V", "W", "X", "Y", "Z">>
LowerLetters == <<"a", "b", "c", "d", "e", "f", "g", "h", "i", "j", "k", "l", "m",
                  "n", "o", "p", "q", "r", "s", "t", "u", "v", "w", "x", "y", "z">>

LowerChar(c) ==
  IF \E i \in 1..Len(UpperLetters) : UpperLetters[i] = c
  THEN LowerLetters[CHOOSE i \in 1..Len(UpperLetters) : UpperLetters[i] = c]
  ELSE c

\* String.prototype.toLowerCase, as zod's .toLowerCase() applies it.
ToLower(str) == [i \in 1..Len(str) |-> LowerChar(str[i])]

UpperChar(c) ==
  IF \E i \in 1..Len(LowerLetters) : LowerLetters[i] = c
  THEN UpperLetters[CHOOSE i \in 1..Len(LowerLetters) : LowerLetters[i] = c]
  ELSE c

\* String.prototype.toUpperCase, as zod's .toUpperCase() applies it.
ToUpper(str) == [i \in 1..Len(str) |-> UpperChar(str[i])]

DigitChars == <<"0", "1", "2", "3", "4", "5", "6", "7", "8", "9">>

\* Number.prototype.toString of a non-negative integer.
RECURSIVE NumToString(_)
NumToString(n) ==
  IF n < 10 THEN <<DigitChars[n + 1]>>
  ELSE Append(NumToString(n \div 10), DigitChars[(n % 10) + 1])

\* String.prototype.padStart(width, "0").
PadStart(str, width) ==
  IF Len(str) >= width THEN str ELSE [i \in 1..(width - Len(str)) |-> "0"] \o str

\* generateAccountNumber, for a draw num of randomInt.
FormatAccountNumber(num) == PadStart(NumToString(num), AccountNumberWidth)

(***************************************************************************)
(* Card numbers: passesLuhn and detectCardType.                            *)
(***************************************************************************)
\* cardNumber.replace(/\s+/g, ""), for the characters of /\s/ that the
\* inputs contain.
StripSpaces(str) == SelectSeq(str, LAMBDA c : c \notin {" ", "\t", "\n"})

IsDigit(c) == \E i \in 1..Len(DigitChars) : DigitChars[i] = c

\* parseInt(c, 10) of a digit character.
DigitValue(c) == (CHOOSE i \in 1..Len(DigitChars) : DigitChars[i] = c) - 1

\* /^\d{lo,hi}$/
AllDigits(str, lo, hi) ==
  /\ Len(str) >= lo
  /\ Len(str) <= hi
  /\ \A i \in 1..Len(str) : IsDigit(str[i])

\* The character at position i is a digit between lo and hi.
DigitIn(str, i, lo, hi) == DigitValue(str[i]) >= lo /\ DigitValue(str[i]) <= hi

\* The loop of passesLuhn, from index i down to the first character.
RECURSIVE LuhnSum(_, _, _)
LuhnSum(digits, i, shouldDouble) ==
  IF i < 1 THEN 0
  ELSE LET digit == DigitValue(digits[i])
           doubled == IF digit * 2 > 9 THEN digit * 2 - 9 ELSE digit * 2
       IN (IF shouldDouble THEN doubled ELSE digit)
            + LuhnSum(digits, i - 1, ~shouldDouble)

\* passesLuhn with the doubling started at the rightmost digit.
passesLuhnDoublingFirst(cardNumber) ==
  LET digits == StripSpaces(cardNumber)
  IN IF ~AllDigits(digits, 13, 19) THEN FALSE
     ELSE LuhnSum(digits, Len(digits), TRUE) % 10 = 0

\* passesLuhn of the server.
passesLuhn(cardNumber) ==
  LET digits == StripSpaces(cardNumber)
  IN IF ~AllDigits(digits, 13, 19) THEN FALSE
     ELSE LuhnSum(digits, Len(digits), FALSE) % 10 = 0

\* passesLuhn of the funding form (FundingModal), the same statements.
ModalPassesLuhn(cardNumber) ==
  LET digits == StripSpaces(cardNumber)
  IN IF ~AllDigits(digits, 13, 19) THEN FALSE
     ELSE LuhnSum(digits, Len(digits), FALSE) % 10 = 0

\* /^4\d{12}(\d{3})?(\d{3})?$/
VisaPattern(d) ==
  /\ AllDigits(d, 13, 19)
  /\ Len(d) \in {13, 16, 19}
  /\ d[1] = "4"

\* /^5[1-5]\d{14}$/
MastercardOldPattern(d) ==
  /\ AllDigits(d, 16, 16)
  /\ d[1] = "5"
  /\ DigitIn(d, 2, 1, 5)

\* /^2(2[2-9]\d{2}|[3-6]\d{3}|7[01]\d{2}|720\d{2})\d{10}$/
MastercardNewPattern(d) ==
  /\ AllDigits(d, 15, 16)
  /\ d[1] = "2"
  /\ \/ /\ Len(d) = 15
        /\ \/ d[2] = "2" /\ DigitIn(d, 3, 2, 9)
           \/ DigitIn(d, 2, 3, 6)
           \/ d[2] = "7" /\ DigitIn(d, 3, 0, 1)
     \/ /\ Len(d) = 16
        /\ d[2] = "7" /\ d[3] = "2" /\ d[4] = "0"

\* /^3[47]\d{13}$/
AmexPattern(d) ==
  /\ AllDigits(d, 15, 15)
  /\ d[1] = "3"
  /\ d[2] \in {"4", "7"}

\* /^6(?:011|5\d{2}|4[4-9]\d)\d{12}$/
DiscoverPattern(d) ==
  /\ AllDigits(d, 16, 16)
  /\ d[1] = "6"
  /\ \/ d[2] = "0" /\ d[3] = "1" /\ d[4] = "1"
     \/ d[2] = "5"
     \/ d[2] = "4" /\ DigitIn(d, 3, 4, 9)

\* /^35(2[89]|[3-8]\d)\d{12}$/
JcbPattern(d) ==
  /\ AllDigits(d, 16, 16)
  /\ d[1] = "3"
  /\ d[2] = "5"
  /\ \/ d[3] = "2" /\ DigitIn(d, 4, 8, 9)
     \/ DigitIn(d, 3, 3, 8)

\* detectCardType of the server; "null" stands for null.
detectCardType(cardNumber) ==
  LET digits == StripSpaces(cardNumber)
  IN IF VisaPattern(digits) THEN "visa"
     ELSE IF MastercardOldPattern(digits) \/ MastercardNewPattern(digits) THEN "mastercard"
     ELSE IF AmexPattern(digits) THEN "amex"
     ELSE IF DiscoverPattern(digits) THEN "discover"
     ELSE IF JcbPattern(digits) THEN "jcb"
     ELSE "null"

\* detectCardType of the funding form (FundingModal), the same patterns in
\* the same order.
ModalDetectCardType(cardNumber) ==
  LET digits == StripSpaces(cardNumber)
  IN IF VisaPattern(digits) THEN "visa"
     ELSE IF MastercardOldPattern(digits) \/ MastercardNewPattern(digits) THEN "mastercard"
     ELSE IF AmexPattern(digits) THEN "amex"
     ELSE IF DiscoverPattern(digits) THEN "discover"
     ELSE IF JcbPattern(digits) THEN "jcb"
     ELSE "null"

\* An issue of input validation: the path of the field and the message.
Issue(path, message) == [path |-> path, message |-> message]

\* A card schema that checks the Luhn sum only.
CardIssuesLuhnOnly(accountNumber) ==
  IF passesLuhn(accountNumber) THEN {}
  ELSE {Issue("fundingSource.accountNumber", "Card number is invalid")}

\* The issues cardFundingSchema raises for an account number: both
\* refinements run, each adds its message when it fails.
CardIssues(accountNumber) ==
  (IF passesLuhn(accountNumber) THEN {}
   ELSE {Issue("fundingSource.accountNumber", "Card number is invalid")})
    \cup (IF detectCardType(accountNumber) # "null" THEN {}
          ELSE {Issue("fundingSource.accountNumber", "Unsupported or unknown card type")})

\* The issues bankFundingSchema raises: /^\d{9}$/ on the routing number.
BankIssues(routingNumber) ==
  IF AllDigits(routingNumber, 9, 9) THEN {}
  ELSE {Issue("fundingSource.routingNumber", "Routing number must be 9 digits")}

\* fundingSourceSchema, the union discriminated by type.
FundingIssues(source) ==
  IF source.type = CardFunding THEN CardIssues(source.accountNumber)
  ELSE BankIssues(source.routingNumber)

(***************************************************************************)
(* Dates.  A date string "YYYY-MM-DD" is the triple <<y, m, d>>; a string   *)
(* that is no date is NotADate.  An instant is a day number (days since     *)
(* 1970-01-01, UTC) and the milliseconds into that day; the model's clock   *)
(* counts milliseconds from midnight UTC of ClockOrigin.                    *)
(***************************************************************************)
NotADate == <<0, 0, 0>>
ClockOrigin == <<2026, 10, 30>>

\* Day number of a calendar date (proleptic Gregorian calendar).
DaysFromCivil(date) ==
  LET y == IF date[2] <= 2 THEN date[1] - 1 ELSE date[1]
      era == y \div 400
      yoe == y - era * 400
      mp == IF date[2] > 2 THEN date[2] - 3 ELSE date[2] + 9
      doy == (153 * mp + 2) \div 5 + date[3] - 1
      doe == yoe * 365 + yoe \div 4 - yoe \div 100 + doy
  IN era * 146097 + doe - 719468

\* Calendar date of a day number.
CivilFromDays(z) ==
  LET zz == z + 719468
      era == zz \div 146097
      doe == zz - era * 146097
      yoe == (doe - doe \div 1460 + doe \div 36524 - doe \div 146096) \div 365
      doy == doe - (365 * yoe + yoe \div 4 - yoe \div 100)
      mp == (5 * doy + 2) \div 153
      d == doy - (153 * mp + 2) \div 5 + 1
      m == IF mp < 10 THEN mp + 3 ELSE mp - 9
  IN <<yoe + era * 400 + (IF m <= 2 THEN 1 ELSE 0), m, d>>

\* new Date(value) of a date string: midnight UTC of that date.
ParseDate(value) == [day |-> DaysFromCivil(value), ms |-> 0]

\* new Date() when the model's clock reads t.
DateAt(t) == [day |-> DaysFromCivil(ClockOrigin) + t \div MsPerDay, ms |-> t % MsPerDay]

\* Date.prototype.getFullYear / getMonth / getDate read the instant in the
\* server's local time zone (tz minutes east of UTC).
LocalDate(inst, tz) == CivilFromDays(inst.day + (inst.ms + tz * 60000) \div MsPerDay)
GetFullYear(inst, tz) == LocalDate(inst, tz)[1]
GetMonth(inst, tz) == LocalDate(inst, tz)[2] - 1
GetDate(inst, tz) == LocalDate(inst, tz)[3]

\* dob > today on Date objects.
After(a, b) == a.day > b.day \/ (a.day = b.day /\ a.ms > b.ms)

\* The refinement of dateOfBirthSchema, evaluated at clock t in zone tz.
DateOfBirthOk(value, t, tz) ==
  IF value = NotADate THEN FALSE
  ELSE LET dob == ParseDate(value)
           today == DateAt(t)
           years == GetFullYear(today, tz) - GetFullYear(dob, tz)
           hasHadBirthdayThisYear ==
             \/ GetMonth(today, tz) > GetMonth(dob, tz)
             \/ /\ GetMonth(today, tz) = GetMonth(dob, tz)
                /\ GetDate(today, tz) >= GetDate(dob, tz)
           age == IF hasHadBirthdayThisYear THEN years ELSE years - 1
       IN IF After(dob, today) THEN FALSE ELSE age >= MinimumAge

(***************************************************************************)
(* Opaque capabilities: bcrypt and the signed token.                       *)
(***************************************************************************)
\* bcrypt.hash / bcrypt.compare: a one-way tag of the plaintext.
Hash(pw) == <<"bcrypt", pw>>
Compare(pw, hashed) == hashed = Hash(pw)

\* jwt.sign({userId}, secret, {expiresIn: "7d"}): the token is a function of
\* the payload, whose iat claim is the clock in whole seconds.
NoToken == [userId |-> 0, iat |-> -1]
SignToken(userId, t) == [userId |-> userId, iat |-> t \div 1000]

\* new Date() moved forward by seven days (setDate(getDate() + 7)).
ExpiryFrom(t) == t + SessionDays * MsPerDay

AllTokens == { SignToken(u, t) : u \in 1..MaxUsers, t \in Instants }

(***************************************************************************)
(* The store and the request processes.                                    *)
(***************************************************************************)
VARIABLES
  now,           \* wall clock, milliseconds
  users,         \* rows of the users table
  sessions,      \* rows of the sessions table
  accounts,      \* rows of the accounts table
  transactions,  \* rows of the transactions table, in insertion order
  pc,            \* per process: the await its handler is suspended at
  call,          \* per process: the locals of the running handler
  ret,           \* per process: outcome of its last finished call
  last,          \* the handler step that produced the current state
  loginToken     \* per user id: the token its latest successful login returned

vars == <<now, users, sessions, accounts, transactions, pc, call, ret, last,
          loginToken>>

NoTx == [id |-> 0, accountId |-> 0, type |-> "", amount |-> DZero,
         description |-> <<>>, status |-> "", createdAt |-> 0]

\* The fields of signup's input the model follows, and of a funding source.
NoInput == [email |-> <<>>, password |-> "", dateOfBirth |-> NotADate, state |-> <<>>]
NoSource == [type |-> <<>>, accountNumber |-> <<>>, routingNumber |-> <<>>]

\* What one validation of a card number computed: the value passesLuhn
\* returned and the value detectCardType returned ("" when the function was
\* not called), and the answer of the form's validCard.
NoChecks == [luhn |-> "", cardType |-> "", result |-> ""]

NoCall == [op |-> "none", email |-> <<>>, password |-> "", userId |-> 0,
           accountId |-> 0, amount |-> DZero, source |-> NoSource, balance |-> DZero,
           accountType |-> "", accountNumber |-> <<>>, transaction |-> NoTx,
           input |-> NoInput, raw |-> NoInput, zone |-> 0, pending |-> <<>>,
           rows |-> <<>>, modal |-> NoChecks,
           hashedPassword |-> <<>>, token |-> NoToken, expiresAt |-> 0]

NoAccount == [id |-> 0, userId |-> 0, accountNumber |-> <<>>, accountType |-> "",
              balance |-> DZero, status |-> ""]

\* The outcome of a call: its response (code, message, issues, token,
\* success, transaction, newBalance, transactions, account) and the request
\* it answered (userId, accountId, amount, cookie, input, source, zone, at).
NoRet == [op |-> "none", code |-> "", message |-> "", userId |-> 0,
          token |-> NoToken, success |-> FALSE, transaction |-> NoTx,
          newBalance |-> DZero, accountId |-> 0, amount |-> DZero,
          cookie |-> NoToken, at |-> 0, issues |-> {}, transactions |-> <<>>,
          input |-> NoInput, source |-> NoSource, zone |-> 0,
          modal |-> NoChecks, server |-> NoChecks, account |-> NoAccount]

Error(op, code, message) ==
  [NoRet EXCEPT !.op = op, !.code = code, !.message = message]

SessionsOf(rows, userId) == { s \in rows : s.userId = userId }

Init ==
  /\ now = 0
  /\ users = {}
  /\ sessions = {}
  /\ accounts = {}
  /\ transactions = <<>>
  /\ pc = [p \in Procs |-> "idle"]
  /\ call = [p \in Procs |-> NoCall]
  /\ ret = [p \in Procs |-> NoRet]
  /\ last = <<"init", "none">>
  /\ loginToken = [u \in 1..MaxUsers |-> NoToken]

\* Finish the call of process p with outcome r.
Finish(p, r) ==
  /\ pc' = [pc EXCEPT ![p] = "idle"]
  /\ call' = [call EXCEPT ![p] = NoCall]
  /\ ret' = [ret EXCEPT ![p] = r]

\* Suspend the call of process p at await `at` with locals c.
Suspend(p, at, c) ==
  /\ pc' = [pc EXCEPT ![p] = at]
  /\ call' = [call EXCEPT ![p] = c]
  /\ ret' = [ret EXCEPT ![p] = NoRet]

\* The clock moves forward.
Tick(t) ==
  /\ t > now
  /\ now' = t
  /\ last' = <<"Tick", "none">>
  /\ UNCHANGED loginToken
  /\ UNCHANGED <<users, sessions, accounts, transactions, pc, call, ret>>

(***************************************************************************)
(* authRouter.signup                                                       *)
(***************************************************************************)
\* The issues signup's input schema raises, at clock t in zone tz.
SignupIssues(input, t, tz) ==
  (IF DateOfBirthOk(input.dateOfBirth, t, tz) THEN {}
   ELSE {Issue("dateOfBirth", "You must be at least 18 years old")})
    \cup (IF Len(input.state) = StateCodeLength THEN {}
          ELSE {Issue("state", "String must contain exactly 2 character(s)")})

\* The input as the schema hands it to the handler.
ParseSignup(input) ==
  [input EXCEPT !.email = ToLower(input.email), !.state = ToUpper(input.state)]

\* The calls that are about to insert a users row.
UsersInFlight ==
  Cardinality({ q \in Procs : pc[q] \in {"su_hash", "su_hash_ssn", "su_insert", "tu_insert"} })

\* A signup that looks up and stores the email as given.
SignupCheckAsGiven(p, input, tz) ==
  LET issues == SignupIssues(input, now, tz)
      parsed == [input EXCEPT !.state = ToUpper(input.state)]
      existingUser == { u \in users : u.email = parsed.email }
  IN /\ pc[p] = "idle"
     /\ issues # {} \/ existingUser # {} \/ Cardinality(users) + UsersInFlight < MaxUsers
     /\ last' = <<"SignupCheck", p>>
     /\ UNCHANGED loginToken
     /\ IF issues # {}
        THEN Finish(p, [Error("signup", "BAD_REQUEST", "Input validation failed")
                          EXCEPT !.issues = issues, !.input = input,
                                 !.zone = tz, !.at = now])
        ELSE IF existingUser # {}
        THEN Finish(p, [Error("signup", "CONFLICT", "User already exists")
                          EXCEPT !.input = input, !.zone = tz, !.at = now])
        ELSE Suspend(p, "su_hash",
                     [NoCall EXCEPT !.op = "signup", !.email = parsed.email,
                                    !.password = input.password,
                                    !.input = parsed, !.raw = input,
                                    !.zone = tz])
     /\ UNCHANGED <<now, users, sessions, accounts, transactions>>

\* Input parsing and the existing-user lookup.
SignupCheck(p, input, tz) ==
  LET issues == SignupIssues(input, now, tz)
      parsed == ParseSignup(input)
      existingUser == { u \in users : u.email = parsed.email }
  IN /\ pc[p] = "idle"
     /\ issues # {} \/ existingUser # {} \/ Cardinality(users) + UsersInFlight < MaxUsers
     /\ last' = <<"SignupCheck", p>>
     /\ UNCHANGED loginToken
     /\ IF issues # {}
        THEN Finish(p, [Error("signup", "BAD_REQUEST", "Input validation failed")
                          EXCEPT !.issues = issues, !.input = input,
                                 !.zone = tz, !.at = now])
        ELSE IF existingUser # {}
        THEN Finish(p, [Error("signup", "CONFLICT", "User already exists")
                          EXCEPT !.input = input, !.zone = tz, !.at = now])
        ELSE Suspend(p, "su_hash",
                     [NoCall EXCEPT !.op = "signup", !.email = parsed.email,
                                    !.password = input.password,
                                    !.input = parsed, !.raw = input,
                                    !.zone = tz])
     /\ UNCHANGED <<now, users, sessions, accounts, transactions>>

\* The users table rejects a second row with the same email.
UsersAcceptEmail(rows, email) == \A u \in rows : u.email # email

\* const hashedPassword = await bcrypt.hash(input.password, 10)
SignupHashPassword(p) ==
  /\ pc[p] = "su_hash"
  /\ last' = <<"SignupHashPassword", p>>
  /\ pc' = [pc EXCEPT ![p] = "su_hash_ssn"]
  /\ call' = [call EXCEPT ![p].hashedPassword = Hash(call[p].password)]
  /\ UNCHANGED <<now, users, sessions, accounts, transactions, ret, loginToken>>

\* const hashedSSN = await bcrypt.hash(input.ssn, 12)
SignupHashSsn(p) ==
  /\ pc[p] = "su_hash_ssn"
  /\ last' = <<"SignupHashSsn", p>>
  /\ pc' = [pc EXCEPT ![p] = "su_insert"]
  /\ UNCHANGED <<now, users, sessions, accounts, transactions, call, ret, loginToken>>

\* Insert the user row.
SignupInsertUser(p) ==
  /\ pc[p] = "su_insert"
  /\ last' = <<"SignupInsertUser", p>>
  /\ UNCHANGED loginToken
  /\ IF UsersAcceptEmail(users, call[p].email)
     THEN LET user == [id |-> Cardinality(users) + 1,
                       email |-> call[p].email,
                       password |-> call[p].hashedPassword,
                       dateOfBirth |-> call[p].input.dateOfBirth,
                       state |-> call[p].input.state]
          IN /\ users' = users \cup {user}
             /\ pc' = [pc EXCEPT ![p] = "su_fetch"]
             /\ UNCHANGED <<call, ret>>
     ELSE /\ Finish(p, Error("signup", "INTERNAL_SERVER_ERROR", "constraint failed"))
          /\ UNCHANGED users
  /\ UNCHANGED <<now, sessions, accounts, transactions>>

\* Fetch the created user by its email.
SignupFetchUser(p) ==
  LET found == { u \in users : u.email = call[p].email }
  IN /\ pc[p] = "su_fetch"
     /\ last' = <<"SignupFetchUser", p>>
     /\ IF found = {}
        THEN Finish(p, Error("signup", "INTERNAL_SERVER_ERROR", "Failed to create user"))
        ELSE LET user == CHOOSE u \in found : TRUE
             IN /\ pc' = [pc EXCEPT ![p] = "su_delete"]
                /\ call' = [call EXCEPT ![p].userId = user.id]
                /\ UNCHANGED ret
     /\ UNCHANGED <<now, users, sessions, accounts, transactions, loginToken>>

\* The locals c of a call after it signed its token and computed its expiry
\* at clock t, which it does as soon as its delete has returned.
WithSession(c, t) ==
  [c EXCEPT !.token = SignToken(c.userId, t), !.expiresAt = ExpiryFrom(t)]

\* Delete existing sessions of the user, then sign the token and compute the
\* expiry.
SignupDeleteSessions(p) ==
  /\ pc[p] = "su_delete"
  /\ last' = <<"SignupDeleteSessions", p>>
  /\ UNCHANGED loginToken
  /\ sessions' = sessions \ SessionsOf(sessions, call[p].userId)
  /\ pc' = [pc EXCEPT ![p] = "su_session"]
  /\ call' = [call EXCEPT ![p] = WithSession(call[p], now)]
  /\ UNCHANGED <<now, users, accounts, transactions, ret>>

\* The sessions table rejects a second row with the same token.
SessionsAcceptToken(rows, token) == \A s \in rows : s.token # token

\* Insert the session row with the token and expiry already computed, reply.
IssueSession(p, op) ==
  LET token == call[p].token
      row == [userId |-> call[p].userId, token |-> token,
              expiresAt |-> call[p].expiresAt]
  IN IF SessionsAcceptToken(sessions, token)
     THEN /\ sessions' = sessions \cup {row}
          /\ Finish(p, [NoRet EXCEPT !.op = op, !.code = "OK",
                                     !.userId = call[p].userId,
                                     !.token = token, !.at = now,
                                     !.input = call[p].raw])
     ELSE /\ Finish(p, Error(op, "INTERNAL_SERVER_ERROR", "constraint failed"))
          /\ UNCHANGED sessions

SignupCreateSession(p) ==
  /\ pc[p] = "su_session"
  /\ last' = <<"SignupCreateSession", p>>
  /\ UNCHANGED loginToken
  /\ IssueSession(p, "signup")
  /\ UNCHANGED <<now, users, accounts, transactions>>

(***************************************************************************)
(* authRouter.login                                                        *)
(***************************************************************************)
\* A login that tells an unknown email from a wrong password.
LoginCheckRevealing(p, email, password) ==
  LET found == { u \in users : u.email = email }
  IN /\ pc[p] = "idle"
     /\ last' = <<"LoginCheck", p>>
     /\ UNCHANGED loginToken
     /\ IF found = {}
        THEN Finish(p, [Error("login", "NOT_FOUND", "User not found")
                          EXCEPT !.input = [NoInput EXCEPT !.email = email]])
        ELSE LET user == CHOOSE u \in found : TRUE
             IN Suspend(p, "li_compare",
                        [NoCall EXCEPT !.op = "login", !.email = email,
                                       !.password = password,
                                       !.userId = user.id,
                                       !.hashedPassword = user.password])
     /\ UNCHANGED <<now, users, sessions, accounts, transactions>>

\* Look the user up by the email as given.
LoginCheck(p, email, password) ==
  LET found == { u \in users : u.email = email }
  IN /\ pc[p] = "idle"
     /\ last' = <<"LoginCheck", p>>
     /\ UNCHANGED loginToken
     /\ IF found = {}
        THEN Finish(p, [Error("login", "UNAUTHORIZED", "Invalid credentials")
                          EXCEPT !.input = [NoInput EXCEPT !.email = email]])
        ELSE LET user == CHOOSE u \in found : TRUE
             IN Suspend(p, "li_compare",
                        [NoCall EXCEPT !.op = "login", !.email = email,
                                       !.password = password,
                                       !.userId = user.id,
                                       !.hashedPassword = user.password])
     /\ UNCHANGED <<now, users, sessions, accounts, transactions>>

\* const validPassword = await bcrypt.compare(input.password, user.password)
LoginCompare(p) ==
  /\ pc[p] = "li_compare"
  /\ last' = <<"LoginCompare", p>>
  /\ UNCHANGED loginToken
  /\ IF ~Compare(call[p].password, call[p].hashedPassword)
     THEN Finish(p, [Error("login", "UNAUTHORIZED", "Invalid credentials")
                       EXCEPT !.input = [NoInput EXCEPT !.email = call[p].email]])
     ELSE Suspend(p, "li_delete",
                  [NoCall EXCEPT !.op = "login", !.email = call[p].email,
                                 !.userId = call[p].userId])
  /\ UNCHANGED <<now, users, sessions, accounts, transactions>>

\* A login that leaves the previous sessions of the user in place.
LoginKeepsSessions(p) ==
  /\ pc[p] = "li_delete"
  /\ last' = <<"LoginDeleteSessions", p>>
  /\ UNCHANGED loginToken
  /\ pc' = [pc EXCEPT ![p] = "li_session"]
  /\ call' = [call EXCEPT ![p] = WithSession(call[p], now)]
  /\ UNCHANGED <<now, users, sessions, accounts, transactions, ret>>

\* Invalidate all previous sessions of the user, then sign the token and
\* compute the expiry.
LoginDeleteSessions(p) ==
  /\ pc[p] = "li_delete"
  /\ last' = <<"LoginDeleteSessions", p>>
  /\ UNCHANGED loginToken
  /\ sessions' = sessions \ SessionsOf(sessions, call[p].userId)
  /\ pc' = [pc EXCEPT ![p] = "li_session"]
  /\ call' = [call EXCEPT ![p] = WithSession(call[p], now)]
  /\ UNCHANGED <<now, users, accounts, transactions, ret>>

LoginCreateSession(p) ==
  /\ pc[p] = "li_session"
  /\ last' = <<"LoginCreateSession", p>>
  /\ IssueSession(p, "login")
  /\ loginToken' = IF ret'[p].code = "OK"
                   THEN [loginToken EXCEPT ![call[p].userId] = ret'[p].token]
                   ELSE loginToken
  /\ UNCHANGED <<now, users, accounts, transactions>>

(***************************************************************************)
(* authRouter.logout                                                       *)
(***************************************************************************)
\* A logout that revokes every session of the caller instead of the one the
\* cookie names.
LogoutAllOfUser(p, ctxUser, cookie) ==
  /\ pc[p] = "idle"
  /\ last' = <<"Logout", p>>
  /\ UNCHANGED loginToken
  /\ sessions' = IF ctxUser # 0
                 THEN sessions \ SessionsOf(sessions, ctxUser)
                 ELSE sessions
  /\ Finish(p, [NoRet EXCEPT !.op = "logout", !.code = "OK",
                             !.success = TRUE,
                             !.message = IF ctxUser # 0
                                         THEN "Logged out successfully"
                                         ELSE "No active session",
                             !.userId = ctxUser, !.cookie = cookie, !.at = now])
  /\ UNCHANGED <<now, users, accounts, transactions>>

\* ctxUser is ctx.user, the caller the request context resolved (a user id,
\* or 0 for null), here and in the accountRouter handlers; cookie is the session
\* cookie of the request (NoToken when the request carries none).
Logout(p, ctxUser, cookie) ==
  /\ pc[p] = "idle"
  /\ last' = <<"Logout", p>>
  /\ UNCHANGED loginToken
  /\ sessions' = IF ctxUser # 0 /\ cookie # NoToken
                 THEN { s \in sessions : s.token # cookie }
                 ELSE sessions
  /\ Finish(p, [NoRet EXCEPT !.op = "logout", !.code = "OK",
                             !.success = TRUE,
                             !.message = IF ctxUser # 0
                                         THEN "Logged out successfully"
                                         ELSE "No active session",
                             !.userId = ctxUser, !.cookie = cookie, !.at = now])
  /\ UNCHANGED <<now, users, accounts, transactions>>

(***************************************************************************)
(* Session validation on each request (createContext).                     *)
(***************************************************************************)
\* Expiry without the safety window.
SessionExpiredNoWindow(s, t) == t >= s.expiresAt

\* A session is treated as expired once the clock is within the safety
\* window of its expiry.
SessionExpired(s, t) == t + SafetyWindowMs >= s.expiresAt

ValidateSession(p, cookie) ==
  LET found == { s \in sessions : s.token = cookie }
      stale == { s \in found : SessionExpired(s, now) }
      live == found \ stale
  IN /\ pc[p] = "idle"
     /\ last' = <<"ValidateSession", p>>
     /\ UNCHANGED loginToken
     /\ sessions' = sessions \ stale
     /\ Finish(p, [NoRet EXCEPT !.op = "createContext", !.code = "OK",
                                !.userId = IF live = {} THEN 0
                                           ELSE (CHOOSE s \in live : TRUE).userId,
                                !.cookie = cookie, !.at = now])
     /\ UNCHANGED <<now, users, accounts, transactions>>

(***************************************************************************)
(* accountRouter.createAccount                                             *)
(***************************************************************************)
\* Reject a second account of the same type for the caller.
CreateAccountCheck(p, ctxUser, accountType) ==
  LET existingAccount == { a \in accounts : a.userId = ctxUser
                                            /\ a.accountType = accountType }
  IN /\ pc[p] = "idle"
     /\ \/ existingAccount # {}
        \/ Cardinality(accounts)
             + Cardinality({ q \in Procs : pc[q] \in {"ca_draw", "ca_insert"} }) < MaxAccounts
     /\ last' = <<"CreateAccountCheck", p>>
     /\ UNCHANGED loginToken
     /\ IF existingAccount # {}
        THEN Finish(p, [Error("createAccount", "CONFLICT",
                              "You already have a " \o accountType \o " account")
                          EXCEPT !.userId = ctxUser])
        ELSE Suspend(p, "ca_draw",
                     [NoCall EXCEPT !.op = "createAccount", !.userId = ctxUser,
                                    !.accountType = accountType])
     /\ UNCHANGED <<now, users, sessions, accounts, transactions>>

\* A loop that leaves when the drawn number is taken instead of free.
CreateAccountDrawUntilTaken(p, num) ==
  LET accountNumber == FormatAccountNumber(num)
      existing == { a \in accounts : a.accountNumber = accountNumber }
  IN /\ pc[p] = "ca_draw"
     /\ last' = <<"CreateAccountDraw", p>>
     /\ UNCHANGED loginToken
     /\ call' = [call EXCEPT ![p].accountNumber = accountNumber]
     /\ pc' = [pc EXCEPT ![p] = IF existing # {} THEN "ca_insert" ELSE "ca_draw"]
     /\ UNCHANGED <<now, users, sessions, accounts, transactions, ret>>

\* One round of the loop: draw a number, look it up.
CreateAccountDraw(p, num) ==
  LET accountNumber == FormatAccountNumber(num)
      existing == { a \in accounts : a.accountNumber = accountNumber }
  IN /\ pc[p] = "ca_draw"
     /\ last' = <<"CreateAccountDraw", p>>
     /\ UNCHANGED loginToken
     /\ call' = [call EXCEPT ![p].accountNumber = accountNumber]
     /\ pc' = [pc EXCEPT ![p] = IF existing = {} THEN "ca_insert" ELSE "ca_draw"]
     /\ UNCHANGED <<now, users, sessions, accounts, transactions, ret>>

\* An accounts table without a constraint on the account number.
AccountsAcceptAny(rows, accountNumber) == TRUE

\* The accounts table rejects a second row with the same account number.
AccountsAcceptNumber(rows, accountNumber) ==
  \A a \in rows : a.accountNumber # accountNumber

\* Insert the account row.
CreateAccountInsert(p) ==
  /\ pc[p] = "ca_insert"
  /\ last' = <<"CreateAccountInsert", p>>
  /\ UNCHANGED loginToken
  /\ IF AccountsAcceptNumber(accounts, call[p].accountNumber)
     THEN LET account == [id |-> Cardinality(accounts) + 1,
                          userId |-> call[p].userId,
                          accountNumber |-> call[p].accountNumber,
                          accountType |-> call[p].accountType,
                          balance |-> DZero,
                          status |-> "active"]
          IN /\ accounts' = accounts \cup {account}
             /\ pc' = [pc EXCEPT ![p] = "ca_fetch"]
             /\ UNCHANGED <<call, ret>>
     ELSE /\ Finish(p, Error("createAccount", "INTERNAL_SERVER_ERROR", "constraint failed"))
          /\ UNCHANGED accounts
  /\ UNCHANGED <<now, users, sessions, transactions>>

\* Fetch the created account by its number and return it.
CreateAccountFetch(p) ==
  LET found == { a \in accounts : a.accountNumber = call[p].accountNumber }
  IN /\ pc[p] = "ca_fetch"
     /\ last' = <<"CreateAccountFetch", p>>
     /\ IF found = {}
        THEN Finish(p, Error("createAccount", "INTERNAL_SERVER_ERROR",
                             "Failed to create account. Please try again."))
        ELSE LET account == CHOOSE a \in found : TRUE
             IN Finish(p, [NoRet EXCEPT !.op = "createAccount", !.code = "OK",
                                        !.userId = call[p].userId,
                                        !.accountId = account.id,
                                        !.account = account, !.at = now])
     /\ UNCHANGED <<now, users, sessions, accounts, transactions, loginToken>>

(***************************************************************************)
(* accountRouter.fundAccount                                               *)
(***************************************************************************)
\* Rows of the transactions table.
TxRows == { transactions[i] : i \in 1..Len(transactions) }
TxOf(accountId) == SelectSeq(transactions, LAMBDA t : t.accountId = accountId)

\* A lookup by account id alone, which answers FORBIDDEN for an account of
\* another user.
FundAccountCheckById(p, ctxUser, accountId, cents, source) ==
  LET amount == FromCents(cents)
      issues == FundingIssues(source)
      found == { a \in accounts : a.id = accountId }
      request == [NoRet EXCEPT !.op = "fundAccount", !.userId = ctxUser,
                               !.accountId = accountId, !.source = source]
  IN /\ pc[p] = "idle"
     /\ Len(transactions) + Cardinality({ q \in Procs : pc[q] = "fa_insert" }) < MaxTx
     /\ last' = <<"FundAccountCheck", p>>
     /\ UNCHANGED loginToken
     /\ IF issues # {}
        THEN Finish(p, [request EXCEPT !.code = "BAD_REQUEST",
                                       !.message = "Input validation failed",
                                       !.issues = issues])
        ELSE IF found = {}
        THEN Finish(p, [request EXCEPT !.code = "NOT_FOUND",
                                       !.message = "Account not found"])
        ELSE LET account == CHOOSE a \in found : TRUE
             IN IF account.userId # ctxUser
                THEN Finish(p, [request EXCEPT !.code = "FORBIDDEN",
                                               !.message = "Not your account"])
                ELSE IF account.status # "active"
                THEN Finish(p, [request EXCEPT !.code = "BAD_REQUEST",
                                               !.message = "Account is not active"])
                ELSE Suspend(p, "fa_insert",
                             [NoCall EXCEPT !.op = "fundAccount", !.userId = ctxUser,
                                            !.accountId = accountId,
                                            !.amount = amount,
                                            !.source = source,
                                            !.balance = account.balance])
     /\ UNCHANGED <<now, users, sessions, accounts, transactions>>

\* Load the target account of the caller and check its status.
FundAccountCheck(p, ctxUser, accountId, cents, source) ==
  LET amount == FromCents(cents)
      issues == FundingIssues(source)
      found == { a \in accounts : a.id = accountId /\ a.userId = ctxUser }
      request == [NoRet EXCEPT !.op = "fundAccount", !.userId = ctxUser,
                               !.accountId = accountId, !.source = source]
  IN /\ pc[p] = "idle"
     /\ Len(transactions) + Cardinality({ q \in Procs : pc[q] = "fa_insert" }) < MaxTx
     /\ last' = <<"FundAccountCheck", p>>
     /\ UNCHANGED loginToken
     /\ IF issues # {}
        THEN Finish(p, [request EXCEPT !.code = "BAD_REQUEST",
                                       !.message = "Input validation failed",
                                       !.issues = issues])
        ELSE IF found = {}
        THEN Finish(p, [request EXCEPT !.code = "NOT_FOUND",
                                       !.message = "Account not found"])
        ELSE LET account == CHOOSE a \in found : TRUE
             IN IF account.status # "active"
                THEN Finish(p, [request EXCEPT !.code = "BAD_REQUEST",
                                               !.message = "Account is not active"])
                ELSE Suspend(p, "fa_insert",
                             [NoCall EXCEPT !.op = "fundAccount", !.userId = ctxUser,
                                            !.accountId = accountId,
                                            !.amount = amount,
                                            !.source = source,
                                            !.balance = account.balance])
     /\ UNCHANGED <<now, users, sessions, accounts, transactions>>

\* `Funding from ${input.fundingSource.type}`
FundingPrefix == <<"F", "u", "n", "d", "i", "n", "g", " ", "f", "r", "o", "m", " ">>

\* Create the transaction row.
FundAccountInsert(p) ==
  /\ pc[p] = "fa_insert"
  /\ last' = <<"FundAccountInsert", p>>
  /\ UNCHANGED loginToken
  /\ transactions' = Append(transactions,
                            [id |-> Len(transactions) + 1,
                             accountId |-> call[p].accountId,
                             type |-> "deposit",
                             amount |-> call[p].amount,
                             description |-> FundingPrefix \o call[p].source.type,
                             status |-> "completed",
                             createdAt |-> now \div 1000])
  /\ pc' = [pc EXCEPT ![p] = "fa_fetch"]
  /\ UNCHANGED <<now, users, sessions, accounts, call, ret>>

\* select().from(transactions).orderBy(createdAt).limit(1): a row with the
\* smallest createdAt of the whole table; rows that tie come back in an
\* order the query does not fix.
OldestTx(rows) == { t \in rows : \A o \in rows : t.createdAt <= o.createdAt }

\* Fetch "the created transaction".
FundAccountFetch(p) ==
  /\ pc[p] = "fa_fetch"
  /\ last' = <<"FundAccountFetch", p>>
  /\ UNCHANGED loginToken
  /\ \E t \in OldestTx(TxRows) :
       call' = [call EXCEPT ![p].transaction = t]
  /\ pc' = [pc EXCEPT ![p] = "fa_update"]
  /\ UNCHANGED <<now, users, sessions, accounts, transactions, ret>>

\* The balance the update writes: the balance read at the start plus the amount.
NewBalance(balance, amount) == FAdd(balance, amount)

\* Update the account balance.
FundAccountUpdate(p) ==
  /\ pc[p] = "fa_update"
  /\ last' = <<"FundAccountUpdate", p>>
  /\ UNCHANGED loginToken
  /\ accounts' = { IF a.id = call[p].accountId
                   THEN [a EXCEPT !.balance = NewBalance(call[p].balance, call[p].amount)]
                   ELSE a : a \in accounts }
  /\ pc' = [pc EXCEPT ![p] = "fa_reload"]
  /\ UNCHANGED <<now, users, sessions, transactions, call, ret>>

\* Read the account back and reply.
FundAccountReload(p) ==
  LET updated == { a \in accounts : a.id = call[p].accountId }
  IN /\ pc[p] = "fa_reload"
     /\ last' = <<"FundAccountReload", p>>
     /\ UNCHANGED loginToken
     /\ IF updated = {}
        THEN Finish(p, Error("fundAccount", "INTERNAL_SERVER_ERROR",
                             "Failed to load updated account balance"))
        ELSE Finish(p, [NoRet EXCEPT !.op = "fundAccount", !.code = "OK",
                                     !.userId = call[p].userId,
                                     !.accountId = call[p].accountId,
                                     !.amount = call[p].amount,
                                     !.transaction = call[p].transaction,
                                     !.newBalance = (CHOOSE a \in updated : TRUE).balance,
                                     !.at = now])
     /\ UNCHANGED <<now, users, sessions, accounts, transactions>>

(***************************************************************************)
(* accountRouter.getTransactions                                           *)
(***************************************************************************)
\* Load the target account of the caller.
GetTransactionsCheck(p, ctxUser, accountId) ==
  LET found == { a \in accounts : a.id = accountId /\ a.userId = ctxUser }
      request == [NoRet EXCEPT !.op = "getTransactions", !.userId = ctxUser,
                               !.accountId = accountId]
  IN /\ pc[p] = "idle"
     /\ last' = <<"GetTransactionsCheck", p>>
     /\ UNCHANGED loginToken
     /\ IF found = {}
        THEN Finish(p, [request EXCEPT !.code = "NOT_FOUND",
                                       !.message = "Account not found"])
        ELSE Suspend(p, "gt_select",
                     [NoCall EXCEPT !.op = "getTransactions", !.userId = ctxUser,
                                    !.accountId = accountId])
     /\ UNCHANGED <<now, users, sessions, accounts, transactions>>

\* The reply of getTransactions for the rows gathered by process p.
GetTransactionsReply(p, rows) ==
  Finish(p, [NoRet EXCEPT !.op = "getTransactions", !.code = "OK",
                          !.userId = call[p].userId,
                          !.accountId = call[p].accountId,
                          !.transactions = rows, !.at = now])

\* Select the transactions of the account.
GetTransactionsSelect(p) ==
  LET accountTransactions == TxOf(call[p].accountId)
  IN /\ pc[p] = "gt_select"
     /\ last' = <<"GetTransactionsSelect", p>>
     /\ UNCHANGED loginToken
     /\ IF accountTransactions = <<>>
        THEN GetTransactionsReply(p, <<>>)
        ELSE /\ pc' = [pc EXCEPT ![p] = "gt_enrich"]
             /\ call' = [call EXCEPT ![p].pending = accountTransactions,
                                     ![p].rows = <<>>]
             /\ UNCHANGED ret
     /\ UNCHANGED <<now, users, sessions, accounts, transactions>>

\* { ...transaction, accountType: accountDetails?.accountType }
Enrich(transaction, accountDetails) ==
  [id |-> transaction.id, accountId |-> transaction.accountId,
   type |-> transaction.type, amount |-> transaction.amount,
   description |-> transaction.description, status |-> transaction.status,
   createdAt |-> transaction.createdAt,
   accountType |-> IF accountDetails = {} THEN "undefined"
                   ELSE (CHOOSE a \in accountDetails : TRUE).accountType]

\* One round of the loop: load the account of the next transaction and push
\* the enriched row; reply after the last one.
GetTransactionsEnrich(p) ==
  LET transaction == Head(call[p].pending)
      accountDetails == { a \in accounts : a.id = transaction.accountId }
      rows == Append(call[p].rows, Enrich(transaction, accountDetails))
  IN /\ pc[p] = "gt_enrich"
     /\ last' = <<"GetTransactionsEnrich", p>>
     /\ UNCHANGED loginToken
     /\ IF Tail(call[p].pending) = <<>>
        THEN GetTransactionsReply(p, rows)
        ELSE /\ call' = [call EXCEPT ![p].pending = Tail(call[p].pending),
                                     ![p].rows = rows]
             /\ UNCHANGED <<pc, ret>>
     /\ UNCHANGED <<now, users, sessions, accounts, transactions>>

(***************************************************************************)
(* Rows written to the store from outside the routers.                     *)
(***************************************************************************)
\* The payload and the amount of the transaction row the escaping test
\* inserts with db.insert(transactions).
MaliciousInput == <<"<", "s", "c", "r", "i", "p", "t", ">", "a", "l", "e", "r", "t", "(", "\"", "o", "w", "n", "e", "d", "\"", ")", "<", "/", "s", "c", "r", "i", "p", "t", ">">>
PlainInput == <<"R", "e", "n", "t">>
FixtureCents == 1000

InsertTransactionRow(accountId, description) ==
  /\ Len(transactions) + Cardinality({ q \in Procs : pc[q] = "fa_insert" }) < MaxTx
  /\ \E a \in accounts : a.id = accountId
  /\ last' = <<"InsertTransactionRow", "none">>
  /\ UNCHANGED loginToken
  /\ transactions' = Append(transactions,
                            [id |-> Len(transactions) + 1,
                             accountId |-> accountId,
                             type |-> "deposit",
                             amount |-> FromCents(FixtureCents),
                             description |-> description,
                             status |-> "completed",
                             createdAt |-> now \div 1000])
  /\ UNCHANGED <<now, users, sessions, accounts, pc, call, ret>>

\* createTestUser of the tests: hash the password.
CreateTestUserHash(p, email, password) ==
  /\ pc[p] = "idle"
  /\ Cardinality(users) + UsersInFlight < MaxUsers
  /\ last' = <<"CreateTestUserHash", p>>
  /\ Suspend(p, "tu_insert",
             [NoCall EXCEPT !.op = "createTestUser", !.email = email,
                            !.password = password,
                            !.hashedPassword = Hash(password)])
  /\ UNCHANGED <<now, users, sessions, accounts, transactions, loginToken>>

\* Insert the users row with the email as given.
CreateTestUserInsert(p) ==
  /\ pc[p] = "tu_insert"
  /\ last' = <<"CreateTestUserInsert", p>>
  /\ UNCHANGED loginToken
  /\ IF UsersAcceptEmail(users, call[p].email)
     THEN /\ users' = users \cup {[id |-> Cardinality(users) + 1,
                                    email |-> call[p].email,
                                    password |-> call[p].hashedPassword,
                                    dateOfBirth |-> <<1990, 1, 1>>,
                                    state |-> <<"N", "J">>]}
          /\ pc' = [pc EXCEPT ![p] = "tu_fetch"]
          /\ UNCHANGED <<call, ret>>
     ELSE /\ Finish(p, Error("createTestUser", "INTERNAL_SERVER_ERROR", "constraint failed"))
          /\ UNCHANGED users
  /\ UNCHANGED <<now, sessions, accounts, transactions>>

\* Fetch the row by its email and return it.
CreateTestUserFetch(p) ==
  LET found == { u \in users : u.email = call[p].email }
  IN /\ pc[p] = "tu_fetch"
     /\ found # {}
     /\ last' = <<"CreateTestUserFetch", p>>
     /\ Finish(p, [NoRet EXCEPT !.op = "createTestUser", !.code = "OK",
                                !.userId = (CHOOSE u \in found : TRUE).id,
                                !.input = [NoInput EXCEPT !.email = call[p].email,
                                                          !.password = call[p].password]])
     /\ UNCHANGED <<now, users, sessions, accounts, transactions, loginToken>>

\* An account leaves the status `active`.
DeactivateAccount(accountId) ==
  /\ \E a \in accounts : a.id = accountId /\ a.status = "active"
  /\ last' = <<"DeactivateAccount", "none">>
  /\ UNCHANGED loginToken
  /\ accounts' = { IF a.id = accountId THEN [a EXCEPT !.status = "inactive"] ELSE a :
                    a \in accounts }
  /\ UNCHANGED <<now, users, sessions, transactions, pc, call, ret>>

(***************************************************************************)
(* Specifications.                                                         *)
(***************************************************************************)
\* The signup of the tests: an adult born 1990-01-01 in NJ, server on UTC.
TestSignup(email, password) ==
  [email |-> email, password |-> password, dateOfBirth |-> <<1990, 1, 1>>,
   state |-> <<"N", "J">>]

\* The card funding source of the tests.
FundingSources ==
  { [type |-> t, accountNumber |-> TestCard, routingNumber |-> <<>>] : t \in FundingTypes }

\* One step of a signup call of process p.
SignupStep(p) ==
  \/ \E e \in Emails, w \in SignupPasswords : SignupCheck(p, TestSignup(e, w), 0)
  \/ SignupHashPassword(p)
  \/ SignupHashSsn(p)
  \/ SignupInsertUser(p)
  \/ SignupFetchUser(p)
  \/ SignupDeleteSessions(p)
  \/ SignupCreateSession(p)

\* One step of a login call of process p.
LoginStep(p) ==
  \/ \E e \in Emails, w \in Passwords : LoginCheck(p, e, w)
  \/ LoginCompare(p)
  \/ LoginDeleteSessions(p)
  \/ LoginCreateSession(p)

\* A logout call, or the validation of a request's session, by process p.
SessionStep(p) ==
  \/ \E u \in 0..MaxUsers, c \in AllTokens \cup {NoToken} : Logout(p, u, c)
  \/ \E c \in AllTokens \cup {NoToken} : ValidateSession(p, c)

\* One step of a createAccount call of process p.
CreateAccountStep(p) ==
  \/ \E u \in 1..MaxUsers, t \in AccountTypes : CreateAccountCheck(p, u, t)
  \/ \E n \in 0..(AcctNumSpace - 1) : CreateAccountDraw(p, n)
  \/ CreateAccountInsert(p)
  \/ CreateAccountFetch(p)

\* One step of a fundAccount call of process p.
FundAccountStep(p) ==
  \/ \E u \in 1..MaxUsers, a \in 1..MaxAccounts, c \in AmountCents, f \in FundingSources :
       FundAccountCheck(p, u, a, c, f)
  \/ FundAccountInsert(p)
  \/ FundAccountFetch(p)
  \/ FundAccountUpdate(p)
  \/ FundAccountReload(p)

\* One step of a getTransactions call of process p.
GetTransactionsStep(p) ==
  \/ \E u \in 1..MaxUsers, a \in 1..MaxAccounts : GetTransactionsCheck(p, u, a)
  \/ GetTransactionsSelect(p)
  \/ GetTransactionsEnrich(p)

\* A row changed from outside the routers.
StoreStep ==
  \/ \E a \in 1..MaxAccounts, d \in {MaliciousInput, PlainInput} : InsertTransactionRow(a, d)
  \/ \E a \in 1..MaxAccounts : DeactivateAccount(a)

\* One step of a createTestUser call of process p.
TestUserStep(p) ==
  \/ \E e \in Emails, w \in Passwords : CreateTestUserHash(p, e, w)
  \/ CreateTestUserInsert(p)
  \/ CreateTestUserFetch(p)

ClockStep == \E t \in Instants : Tick(t)

\* The whole server: handlers of both routers interleave at their awaits.
Next ==
  \/ ClockStep
  \/ StoreStep
  \/ \E p \in Procs : \/ SignupStep(p) \/ LoginStep(p) \/ SessionStep(p)
                      \/ CreateAccountStep(p) \/ FundAccountStep(p)
                      \/ GetTransactionsStep(p) \/ TestUserStep(p)

Spec == Init /\ [][Next]_vars

\* The client whose calls run one after another.
Client == CHOOSE p \in Procs : TRUE

\* authRouter, each call running to completion before the next one starts.
NextAuthSeq ==
  ClockStep \/ SignupStep(Client) \/ LoginStep(Client) \/ SessionStep(Client)

SpecAuthSeq == Init /\ [][NextAuthSeq]_vars

\* authRouter.signup and login, the store operations of two login calls
\* interleaving.
NextAuth ==
  ClockStep \/ SignupStep(Client) \/ \E p \in Procs : LoginStep(p)

SpecAuth == Init /\ [][NextAuth]_vars

\* accountRouter, each call running to completion before the next one starts.
NextFundSeq == ClockStep \/ CreateAccountStep(Client) \/ FundAccountStep(Client)

SpecFundSeq == Init /\ [][NextFundSeq]_vars

\* accountRouter, the store operations of two fundAccount calls of one user
\* interleaving.
NextFund ==
  \/ ClockStep
  \/ \E t \in AccountTypes : CreateAccountCheck(Client, 1, t)
  \/ \E n \in 0..(AcctNumSpace - 1) : CreateAccountDraw(Client, n)
  \/ CreateAccountInsert(Client)
  \/ CreateAccountFetch(Client)
  \/ \E p \in Procs :
       \/ \E a \in 1..MaxAccounts, c \in AmountCents, f \in FundingSources :
            FundAccountCheck(p, 1, a, c, f)
       \/ FundAccountInsert(p)
       \/ FundAccountFetch(p)
       \/ FundAccountUpdate(p)
       \/ FundAccountReload(p)

SpecFund == Init /\ [][NextFund]_vars

\* authRouter.logout next to signup and the accountRouter, each call running
\* to completion before the next one starts, on a clock that stands still.
NextLogout ==
  \/ SignupStep(Client)
  \/ CreateAccountCheck(Client, 1, "checking")
  \/ \E n \in 0..(AcctNumSpace - 1) : CreateAccountDraw(Client, n)
  \/ CreateAccountInsert(Client)
  \/ CreateAccountFetch(Client)
  \/ \E f \in FundingSources : FundAccountCheck(Client, 1, 1, 10, f)
  \/ FundAccountInsert(Client)
  \/ FundAccountFetch(Client)
  \/ FundAccountUpdate(Client)
  \/ FundAccountReload(Client)
  \/ \E u \in 0..MaxUsers, c \in AllTokens \cup {NoToken} : Logout(Client, u, c)

SpecLogout == Init /\ [][NextLogout]_vars

\* accountRouter called by two users in turn, with accounts that leave the
\* status `active`, on a clock that stands still.
NextOwner ==
  \/ CreateAccountStep(Client)
  \/ FundAccountStep(Client)
  \/ GetTransactionsStep(Client)
  \/ \E a \in 1..MaxAccounts : DeactivateAccount(a)

SpecOwner == Init /\ [][NextOwner]_vars

\* accountRouter.createAccount, the store operations of two calls
\* interleaving, on a clock that stands still.
NextAccounts == \E p \in Procs : CreateAccountStep(p)

SpecAccounts == Init /\ [][NextAccounts]_vars

\* The same calls with their progress: randomInt draws every number of the
\* number space again and again, and the event loop resumes every call
\* that waits for the store.
SpecAccountsLive ==
  /\ Init
  /\ [][NextAccounts]_vars
  /\ \A p \in Procs :
       /\ WF_vars(CreateAccountInsert(p))
       /\ WF_vars(CreateAccountFetch(p))
       /\ \A n \in 0..(AcctNumSpace - 1) : WF_vars(CreateAccountDraw(p, n))

\* authRouter.signup over dates of birth, clock readings and server zones.
NextDob ==
  \/ ClockStep
  \/ \E e \in Emails, w \in SignupPasswords, d \in DobInputs, z \in Zones :
       SignupCheck(Client, [TestSignup(e, w) EXCEPT !.dateOfBirth = d], z)
  \/ SignupHashPassword(Client)
  \/ SignupHashSsn(Client)
  \/ SignupInsertUser(Client)
  \/ SignupFetchUser(Client)
  \/ SignupDeleteSessions(Client)
  \/ SignupCreateSession(Client)

SpecDob == Init /\ [][NextDob]_vars

\* authRouter.signup over state values, on a clock that stands still.
NextState ==
  \/ \E e \in Emails, w \in SignupPasswords, c \in StateInputs :
       SignupCheck(Client, [TestSignup(e, w) EXCEPT !.state = c], 0)
  \/ SignupHashPassword(Client)
  \/ SignupHashSsn(Client)
  \/ SignupInsertUser(Client)
  \/ SignupFetchUser(Client)
  \/ SignupDeleteSessions(Client)
  \/ SignupCreateSession(Client)

SpecState == Init /\ [][NextState]_vars

\* Card funding sources with the card numbers of the model.
CardSources ==
  { [type |-> CardFunding, accountNumber |-> n, routingNumber |-> <<>>] :
      n \in {TestCard, BadLuhnCard, SpacedCard, NoBrandCard} }

\* accountRouter.fundAccount over card numbers, by the owner of one account,
\* on a clock that stands still.
NextCardFund ==
  \/ CreateAccountCheck(Client, 1, "checking")
  \/ \E n \in 0..(AcctNumSpace - 1) : CreateAccountDraw(Client, n)
  \/ CreateAccountInsert(Client)
  \/ CreateAccountFetch(Client)
  \/ \E a \in 1..MaxAccounts, c \in AmountCents, f \in CardSources :
       FundAccountCheck(Client, 1, a, c, f)
  \/ FundAccountInsert(Client)
  \/ FundAccountFetch(Client)
  \/ FundAccountUpdate(Client)
  \/ FundAccountReload(Client)

SpecCardFund == Init /\ [][NextCardFund]_vars

\* accountRouter.getTransactions by the owner of one account that holds
\* deposits of fundAccount and rows inserted directly, on a clock that
\* stands still.
NextTxView ==
  \/ CreateAccountCheck(Client, 1, "checking")
  \/ \E n \in 0..(AcctNumSpace - 1) : CreateAccountDraw(Client, n)
  \/ CreateAccountInsert(Client)
  \/ CreateAccountFetch(Client)
  \/ \E a \in 1..MaxAccounts, d \in {MaliciousInput, PlainInput} : InsertTransactionRow(a, d)
  \/ \E a \in 1..MaxAccounts, f \in FundingSources : FundAccountCheck(Client, 1, a, 10, f)
  \/ FundAccountInsert(Client)
  \/ FundAccountFetch(Client)
  \/ FundAccountUpdate(Client)
  \/ FundAccountReload(Client)
  \/ \E a \in 1..MaxAccounts : GetTransactionsCheck(Client, 1, a)
  \/ GetTransactionsSelect(Client)
  \/ GetTransactionsEnrich(Client)

SpecTxView == Init /\ [][NextTxView]_vars

\* The text of a boolean.
BoolText(b) == IF b THEN "true" ELSE "false"

\* validCard of the funding form for the form's funding type and the value
\* of the account number field.
ValidCard(fundingType, value) ==
  IF fundingType # CardFunding THEN [NoChecks EXCEPT !.result = "true"]
  ELSE IF ~ModalPassesLuhn(value)
  THEN [luhn |-> "false", cardType |-> "", result |-> "Card number failed validation"]
  ELSE LET type == ModalDetectCardType(value)
       IN IF type = "null"
          THEN [luhn |-> "true", cardType |-> type,
                result |-> "Unsupported or unknown card type"]
          ELSE [luhn |-> "true", cardType |-> type, result |-> "true"]

\* The refinements fundingSourceSchema runs on a funding source: both of
\* cardFundingSchema for a card, none for a bank account.
SchemaChecks(source) ==
  IF source.type = CardFunding
  THEN [NoChecks EXCEPT !.luhn = BoolText(passesLuhn(source.accountNumber)),
                        !.cardType = detectCardType(source.accountNumber)]
  ELSE NoChecks

\* A funding form filled in with a funding type and the account number n.
FormFilled(n) ==
  /\ now = 0
  /\ users = {}
  /\ sessions = {}
  /\ accounts = {}
  /\ transactions = <<>>
  /\ \E t \in {CardFunding, BankFunding} :
       /\ pc = [p \in Procs |-> IF p = Client THEN "form_validate" ELSE "idle"]
       /\ call = [p \in Procs |->
                   IF p = Client
                   THEN [NoCall EXCEPT
                           !.op = "fundingSource",
                           !.source = [type |-> t, accountNumber |-> n,
                                       routingNumber |->
                                         IF t = BankFunding
                                         THEN <<"1", "2", "3", "4", "5", "6", "7", "8", "9">>
                                         ELSE <<>>]]
                   ELSE NoCall]
  /\ ret = [p \in Procs |-> NoRet]
  /\ last = <<"init", "none">>
  /\ loginToken = [u \in 1..MaxUsers |-> NoToken]

\* The rules registered on the account number field, in the order the form
\* applies them: required, pattern, validate. The first rule that fails gives
\* the field error, named by its rule, and validCard is not called; when
\* both rules pass the result is validCard's.
AccountNumberField(fundingType, value) ==
  LET card == fundingType = CardFunding
  IN IF value = <<>>
     THEN [NoChecks EXCEPT !.result =
             IF card THEN "required: Card number is required"
                     ELSE "required: Account number is required"]
     ELSE IF card /\ ~AllDigits(value, 13, 19)
     THEN [NoChecks EXCEPT !.result =
             "pattern: Card number must be between 13 and 19 digits"]
     ELSE IF ~card /\ ~AllDigits(value, 1, Len(value))
     THEN [NoChecks EXCEPT !.result = "pattern: Invalid account number"]
     ELSE ValidCard(fundingType, value)

\* The form validates the account number field.
FormValidate(p) ==
  /\ pc[p] = "form_validate"
  /\ last' = <<"FormValidate", p>>
  /\ Suspend(p, "schema_parse",
             [call[p] EXCEPT !.modal =
                AccountNumberField(call[p].source.type,
                                   call[p].source.accountNumber)])
  /\ UNCHANGED <<now, users, sessions, accounts, transactions, loginToken>>

\* The server parses the same funding source with fundingSourceSchema.
SchemaParse(p) ==
  /\ pc[p] = "schema_parse"
  /\ last' = <<"SchemaParse", p>>
  /\ Finish(p, [NoRet EXCEPT !.op = "fundingSource", !.code = "OK",
                             !.source = call[p].source,
                             !.modal = call[p].modal,
                             !.server = SchemaChecks(call[p].source),
                             !.issues = FundingIssues(call[p].source)])
  /\ UNCHANGED <<now, users, sessions, accounts, transactions, loginToken>>

NextCardChecks ==
  \/ FormValidate(Client)
  \/ SchemaParse(Client)

\* detectCardType over card numbers of every brand's prefixes and lengths.
SpecCards == (\E n \in CardInputs : FormFilled(n)) /\ [][NextCardChecks]_vars

\* passesLuhn over digit strings and other texts.
SpecLuhn == (\E n \in LuhnInputs : FormFilled(n)) /\ [][NextCardChecks]_vars

(***************************************************************************)
(* Session properties.                                                     *)
(***************************************************************************)
\* The step that produced the current state completed a call of `op`
\* successfully; Caller is the process that ran it.
Caller == last[2]
JustDid(step) == last[1] = step /\ ret[Caller].code = "OK"

\* C1: with calls running one after another, the session store holds at most
\* one row per user in every state, and exactly one row for the user right
\* after a successful signup or login.
OneSessionPerUser ==
  /\ \A u \in 1..MaxUsers : Cardinality(SessionsOf(sessions, u)) <= 1
  /\ JustDid("SignupCreateSession") \/ JustDid("LoginCreateSession")
       => Cardinality(SessionsOf(sessions, ret[Caller].userId)) = 1

\* A login has replaced the session of a user while another user holds one.
OneSessionPerUserWitness ==
  /\ JustDid("LoginCreateSession")
  /\ loginToken[ret[Caller].userId] = ret[Caller].token
  /\ Cardinality(sessions) = 2
  /\ now > 0

\* C2: once two interleaved logins of the same user have both finished,
\* exactly one session row exists for that user.
ConcurrentLoginsLeaveOneSession ==
  \A u \in 1..MaxUsers :
    (\A p \in Procs : /\ pc[p] = "idle"
                      /\ ret[p].op = "login"
                      /\ ret[p].code = "OK"
                      /\ ret[p].userId = u)
      => Cardinality(SessionsOf(sessions, u)) = 1

\* C3: the token a successful login returns differs from the token the
\* user's previous successful login returned, and once it has returned no
\* session row carries the previous token.
LoginTokenIsFresh ==
  [][\A p \in Procs :
       (last' = <<"LoginCreateSession", p>> /\ ret'[p].code = "OK"
          /\ loginToken[ret'[p].userId] # NoToken)
         => /\ ret'[p].token # loginToken[ret'[p].userId]
            /\ \A s \in sessions' : s.token # loginToken[ret'[p].userId]]_vars

\* C4: validating token c at time now: no row with c, unauthenticated and
\* nothing deleted; a row with expiresAt <= now + 90 s, unauthenticated and
\* the row deleted; otherwise authenticated as the row's user, the row kept.
ValidationHonoursSafetyWindow ==
  [][\A p \in Procs :
       last' = <<"ValidateSession", p>>
         => LET c == ret'[p].cookie
                found == { s \in sessions : s.token = c }
            IN /\ found = {} => ret'[p].userId = 0 /\ sessions' = sessions
               /\ \A s \in found :
                    IF s.expiresAt <= now + 90000
                    THEN ret'[p].userId = 0 /\ sessions' = sessions \ {s}
                    ELSE ret'[p].userId = s.userId /\ sessions' = sessions]_vars

\* A request was authenticated by a session 90.4 s away from its expiry, and
\* a session exactly 90 s away from its expiry is no longer stored.
ValidationWitness ==
  /\ last[1] = "ValidateSession"
  /\ ret[Caller].userId # 0
  /\ \E s \in sessions : /\ s.token = ret[Caller].cookie
                         /\ s.expiresAt = ret[Caller].at + 90400
  /\ \E u \in users : SessionsOf(sessions, u.id) = {}

\* C5: a logout with nothing to revoke (no caller, no cookie, or a cookie
\* that matches no row) answers success = FALSE with "No active session";
\* success = TRUE is answered only when a row was deleted.
LogoutReportsNothingRevoked ==
  [][\A p \in Procs :
       last' = <<"Logout", p>>
         => LET nothing == \/ ret'[p].userId = 0
                           \/ ret'[p].cookie = NoToken
                           \/ \A s \in sessions : s.token # ret'[p].cookie
            IN /\ nothing => /\ ret'[p].success = FALSE
                             /\ ret'[p].message = "No active session"
               /\ ret'[p].success = TRUE => sessions' # sessions]_vars

\* C6: a logout by an authenticated caller with cookie t deletes the row
\* with token t and no other row; a logout without caller, or with a token
\* that matches no row, changes no row; users, accounts and transactions
\* are never changed.
LogoutDeletesOnlyItsSession ==
  [][\A p \in Procs :
       last' = <<"Logout", p>>
         => LET t == ret'[p].cookie
                matching == { s \in sessions : s.token = t }
            IN /\ ret'[p].userId # 0 => sessions' = sessions \ matching
               /\ ret'[p].userId = 0 \/ matching = {} => sessions' = sessions
               /\ Cardinality(matching) <= 1
               /\ users' = users
               /\ accounts' = accounts
               /\ transactions' = transactions]_vars

\* A logout has deleted one of two stored sessions while accounts with
\* transactions exist.
LogoutWitness ==
  /\ last[1] = "Logout"
  /\ ret[Caller].userId # 0
  /\ Cardinality(sessions) = 1
  /\ Cardinality(users) = 2
  /\ \A s \in sessions : s.token # ret[Caller].cookie
  /\ ret[Caller].cookie \in { SignToken(u.id, now) : u \in users }
  /\ Len(transactions) > 0

(***************************************************************************)
(* Funding properties.                                                     *)
(***************************************************************************)
\* The sum of the amounts of a sequence of transactions, added up in
\* insertion order in the program's own number arithmetic.
RECURSIVE SumAmounts(_)
SumAmounts(txs) ==
  IF Len(txs) = 0 THEN DZero
  ELSE FAdd(SumAmounts(SubSeq(txs, 1, Len(txs) - 1)), txs[Len(txs)].amount)

FundInProgress(p) == pc[p] \in {"fa_insert", "fa_fetch", "fa_update", "fa_reload"}

\* C7: a successful fundAccount raises the balance of its account by exactly
\* the amount, appends exactly one completed deposit of that amount for that
\* account, and changes no other balance and no other transaction.
FundAddsExactlyAmount ==
  [][\A p \in Procs :
       /\ last' = <<"FundAccountInsert", p>>
            => /\ Len(transactions') = Len(transactions) + 1
               /\ SubSeq(transactions', 1, Len(transactions)) = transactions
               /\ LET t == transactions'[Len(transactions')]
                  IN /\ t.accountId = call[p].accountId
                     /\ t.type = "deposit"
                     /\ t.status = "completed"
                     /\ t.amount = call[p].amount
               /\ accounts' = accounts
       /\ last' = <<"FundAccountUpdate", p>>
            => /\ transactions' = transactions
               /\ \A a \in accounts : \E b \in accounts' :
                    /\ b.id = a.id
                    /\ IF a.id = call[p].accountId
                       THEN SameValue(b.balance, ExactSum(a.balance, call[p].amount))
                       ELSE b = a
       /\ last'[1] \in {"FundAccountCheck", "FundAccountFetch", "FundAccountReload"}
            => accounts' = accounts /\ transactions' = transactions]_vars

\* C8: whenever no fundAccount call is in progress, the balance of every
\* account equals the sum of the amounts of its transactions.
BalanceIsSumOfTransactions ==
  (\A p \in Procs : ~FundInProgress(p))
    => \A a \in accounts : a.balance = SumAmounts(TxOf(a.id))

\* C9: no state another request can observe holds a transaction without its
\* balance increase, or a balance increase without its transaction.
FundIsAtomic ==
  \A a \in accounts :
    /\ a.balance = SumAmounts(TxOf(a.id))
    /\ Len(TxOf(a.id)) > 0 <=> a.balance # DZero

\* C10: the transaction a successful fundAccount returns is the one the call
\* created, on the funded account and with the call's amount.
FundReturnsItsTransaction ==
  JustDid("FundAccountReload")
    => /\ ret[Caller].transaction = transactions[Len(transactions)]
       /\ ret[Caller].transaction.accountId = ret[Caller].accountId
       /\ ret[Caller].transaction.amount = ret[Caller].amount

(***************************************************************************)
(* Account properties.                                                     *)
(***************************************************************************)
\* What the caller receives from a call.
Response(r) ==
  [code |-> r.code, message |-> r.message, issues |-> r.issues,
   token |-> r.token, success |-> r.success, transaction |-> r.transaction,
   newBalance |-> r.newBalance, transactions |-> r.transactions]

NotFoundResponse == Response(Error("any", "NOT_FOUND", "Account not found"))

\* C11: a fundAccount or getTransactions call for an account id the caller
\* does not own receives the same NOT_FOUND "Account not found" response
\* whether the account exists for another user or not at all, with no row
\* returned and none changed; a fundAccount on an owned account that is not
\* active receives BAD_REQUEST and changes no row.
ForeignAccountLooksAbsent ==
  [][\A p \in Procs :
       last' \in {<<"FundAccountCheck", p>>, <<"GetTransactionsCheck", p>>}
         /\ (pc'[p] = "idle" => ret'[p].issues = {})
         => LET u == IF pc'[p] = "idle" THEN ret'[p].userId ELSE call'[p].userId
                a == IF pc'[p] = "idle" THEN ret'[p].accountId ELSE call'[p].accountId
                owned == { x \in accounts : x.id = a /\ x.userId = u }
            IN /\ owned = {}
                    => /\ pc'[p] = "idle"
                       /\ Response(ret'[p]) = NotFoundResponse
               /\ (last'[1] = "FundAccountCheck" /\ \E x \in owned : x.status # "active")
                    => /\ pc'[p] = "idle"
                       /\ ret'[p].code = "BAD_REQUEST"
                       /\ ret'[p].transaction = NoTx
               /\ <<users, sessions, accounts, transactions>>'
                    = <<users, sessions, accounts, transactions>>]_vars

\* A fundAccount call was answered NOT_FOUND for a funded account of another
\* user, while some account is inactive.
ForeignAccountWitness ==
  /\ last[1] = "FundAccountCheck"
  /\ ret[Caller].code = "NOT_FOUND"
  /\ \E a \in accounts : /\ a.id = ret[Caller].accountId
                         /\ a.userId # ret[Caller].userId
                         /\ Len(TxOf(a.id)) > 0
  /\ \E b \in accounts : b.status = "inactive"

\* C12: in every state, also while createAccount calls of one user
\* interleave, no user owns two accounts of the same account type.
OneAccountPerType ==
  \A a, b \in accounts :
    (a.userId = b.userId /\ a.accountType = b.accountType) => a = b

\* C13: in every state, also while createAccount calls interleave, no two
\* stored accounts have the same account number.
AccountNumbersUnique ==
  \A a, b \in accounts : a.accountNumber = b.accountNumber => a = b

\* Two interleaved createAccount calls drew the same number after both had
\* found it free: the first insert is stored, the second was refused.
AccountNumbersWitness ==
  /\ last[1] = "CreateAccountInsert"
  /\ ret[Caller].code = "INTERNAL_SERVER_ERROR"
  /\ \E q \in Procs : /\ q # Caller
                       /\ ret[q].op = "createAccount"
                       /\ ret[q].code = "OK"
  /\ Cardinality(accounts) = 1

(***************************************************************************)
(* Signup and login properties.                                            *)
(***************************************************************************)
IsUpperLetter(c) == \E i \in 1..Len(UpperLetters) : UpperLetters[i] = c

\* Character a is character b, or the lowercase letter of uppercase b.
LowerOf(a, b) ==
  \/ a = b /\ ~IsUpperLetter(b)
  \/ \E i \in 1..Len(UpperLetters) : b = UpperLetters[i] /\ a = LowerLetters[i]

\* stored is the lowercase form of given.
IsLowerForm(stored, given) ==
  /\ Len(stored) = Len(given)
  /\ \A i \in 1..Len(given) : LowerOf(stored[i], given[i])

\* Two strings that differ at most in the case of their letters.
SameUpToCase(x, y) ==
  /\ Len(x) = Len(y)
  /\ \A i \in 1..Len(x) :
       \/ x[i] = y[i]
       \/ \E k \in 1..Len(UpperLetters) : {x[i], y[i]} = {UpperLetters[k], LowerLetters[k]}

\* C14: the email a signup stores is the lowercase form of the email it was
\* given; no two users have the same stored email, also up to letter case;
\* a signup whose email equals a stored email up to letter case is rejected
\* with CONFLICT and adds no user and no session.
EmailsLowercaseAndUnique ==
  [][/\ \A p \in Procs :
         (last' = <<"SignupInsertUser", p>> /\ users' # users)
           => \E u \in users' \ users :
                /\ users' = users \cup {u}
                /\ IsLowerForm(u.email, call[p].raw.email)
     /\ \A u, v \in users' : SameUpToCase(u.email, v.email) => u = v
     /\ \A p \in Procs :
         (last' = <<"SignupCheck", p>> /\ (pc'[p] = "idle" => ret'[p].issues = {}))
           => LET given == IF pc'[p] = "idle" THEN ret'[p].input.email
                           ELSE call'[p].raw.email
              IN (\E u \in users : SameUpToCase(u.email, given))
                   => /\ pc'[p] = "idle"
                      /\ ret'[p].code = "CONFLICT"
                      /\ users' = users
                      /\ sessions' = sessions]_vars

\* With two users stored, a signup with an email that differs from a stored
\* one only in letter case was rejected.
EmailsWitness ==
  /\ last[1] = "SignupCheck"
  /\ ret[Caller].code = "CONFLICT"
  /\ \A u \in users : u.email # ret[Caller].input.email
  /\ \E u \in users : SameUpToCase(u.email, ret[Caller].input.email)
  /\ Cardinality(users) = 2

InvalidCredentialsResponse ==
  Response(Error("login", "UNAUTHORIZED", "Invalid credentials"))

\* C15: a login with an email that has no user is rejected, and every
\* rejected login, for an unknown email or a wrong password alike, receives
\* the same UNAUTHORIZED "Invalid credentials" response and leaves the
\* session store as it was.
LoginRejectionsLookAlike ==
  [][\A p \in Procs :
       (last' = <<"LoginCheck", p>> \/ last' = <<"LoginCompare", p>>)
         => LET email == IF pc'[p] = "idle" THEN ret'[p].input.email
                         ELSE call'[p].email
            IN /\ (\A u \in users : u.email # email) => pc'[p] = "idle"
               /\ pc'[p] = "idle"
                    => Response(ret'[p]) = InvalidCredentialsResponse
               /\ sessions' = sessions]_vars

\* A login with a stored email and a wrong password was rejected while the
\* user holds a session and another email is not registered.
LoginRejectionWitness ==
  /\ last[1] = "LoginCompare"
  /\ ret[Caller].code = "UNAUTHORIZED"
  /\ \E u \in users : /\ u.email = ret[Caller].input.email
                       /\ SessionsOf(sessions, u.id) # {}
  /\ \E e \in Emails : \A u \in users : u.email # ToLower(e)

\* Calendar date a is after calendar date b.
DateAfter(a, b) ==
  \/ a[1] > b[1]
  \/ a[1] = b[1] /\ a[2] > b[2]
  \/ a[1] = b[1] /\ a[2] = b[2] /\ a[3] > b[3]

\* Full years elapsed from date d to date t.
FullYears(d, t) ==
  t[1] - d[1] - (IF DateAfter(<<0, d[2], d[3]>>, <<0, t[2], t[3]>>) THEN 1 ELSE 0)

FutureMessage == "Date of birth cannot be in the future"
UnderageMessage == "You must be at least 18 years old"

\* The messages of a set of issues.
Messages(issues) == { i.message : i \in issues }

\* C16: signup given the date of birth d on the current date t rejects d
\* with the "cannot be in the future" message when d is after t, otherwise
\* with the "must be at least 18 years old" message when fewer than 18 full
\* years have elapsed from d to t, and otherwise accepts it.
DateOfBirthRule ==
  [][\A p \in Procs :
       last' = <<"SignupCheck", p>>
         => LET rejected == pc'[p] = "idle" /\ ret'[p].code = "BAD_REQUEST"
                d == IF pc'[p] = "idle" THEN ret'[p].input.dateOfBirth
                     ELSE call'[p].raw.dateOfBirth
                zone == IF pc'[p] = "idle" THEN ret'[p].zone ELSE call'[p].zone
                t == LocalDate(DateAt(now), zone)
            IN d # NotADate
                 => IF DateAfter(d, t)
                    THEN rejected /\ FutureMessage \in Messages(ret'[p].issues)
                    ELSE IF FullYears(d, t) < 18
                    THEN rejected /\ UnderageMessage \in Messages(ret'[p].issues)
                    ELSE ~rejected]_vars

\* The USPS codes of the fifty states, the federal district and the
\* territories.
UsStateCodes ==
  { <<"A", "L">>, <<"A", "K">>, <<"A", "Z">>, <<"A", "R">>, <<"C", "A">>,
    <<"C", "O">>, <<"C", "T">>, <<"D", "E">>, <<"F", "L">>, <<"G", "A">>,
    <<"H", "I">>, <<"I", "D">>, <<"I", "L">>, <<"I", "N">>, <<"I", "A">>,
    <<"K", "S">>, <<"K", "Y">>, <<"L", "A">>, <<"M", "E">>, <<"M", "D">>,
    <<"M", "A">>, <<"M", "I">>, <<"M", "N">>, <<"M", "S">>, <<"M", "O">>,
    <<"M", "T">>, <<"N", "E">>, <<"N", "V">>, <<"N", "H">>, <<"N", "J">>,
    <<"N", "M">>, <<"N", "Y">>, <<"N", "C">>, <<"N", "D">>, <<"O", "H">>,
    <<"O", "K">>, <<"O", "R">>, <<"P", "A">>, <<"R", "I">>, <<"S", "C">>,
    <<"S", "D">>, <<"T", "N">>, <<"T", "X">>, <<"U", "T">>, <<"V", "T">>,
    <<"V", "A">>, <<"W", "A">>, <<"W", "V">>, <<"W", "I">>, <<"W", "Y">>,
    <<"D", "C">>, <<"A", "S">>, <<"G", "U">>, <<"M", "P">>, <<"P", "R">>,
    <<"V", "I">> }

IsLetter(c) ==
  \E i \in 1..Len(UpperLetters) : c \in {UpperLetters[i], LowerLetters[i]}

\* A state value the signup must accept.
ValidState(c) ==
  /\ Len(c) = 2
  /\ \A i \in 1..Len(c) : IsLetter(c[i])
  /\ \E code \in UsStateCodes : SameUpToCase(code, c)

\* C17: signup rejects a state value that is not two letters of a US state
\* code, with an issue on the state field and without creating a user; it
\* accepts every other one and stores it uppercased.
StateCodeRule ==
  [][\A p \in Procs :
       /\ last' = <<"SignupCheck", p>>
            => LET c == IF pc'[p] = "idle" THEN ret'[p].input.state
                        ELSE call'[p].raw.state
               IN IF ValidState(c)
                  THEN pc'[p] = "idle" => ret'[p].code # "BAD_REQUEST"
                  ELSE /\ pc'[p] = "idle"
                       /\ ret'[p].code = "BAD_REQUEST"
                       /\ \E i \in ret'[p].issues : i.path = "state"
                       /\ users' = users
       /\ (last' = <<"SignupInsertUser", p>> /\ users' # users)
            => \E u \in users' \ users :
                 /\ SameUpToCase(u.state, call[p].raw.state)
                 /\ \A i \in 1..Len(u.state) : ~(\E k \in 1..Len(LowerLetters) :
                                                    LowerLetters[k] = u.state[i])
                 /\ u.state \in UsStateCodes]_vars

(***************************************************************************)
(* Card and transaction properties.                                        *)
(***************************************************************************)
InvalidMessage == "Card number is invalid"
UnsupportedMessage == "Unsupported or unknown card type"

\* C18: fundAccount with a card passes input validation exactly when the
\* number passes the Luhn check and has a recognized brand; a number that
\* fails Luhn is rejected with the "invalid" message, a Luhn-valid number
\* without brand with the "unsupported" message alone, and a rejected call
\* creates no transaction and changes no balance.
CardValidationRule ==
  [][\A p \in Procs :
       last' = <<"FundAccountCheck", p>>
         => LET n == IF pc'[p] = "idle" THEN ret'[p].source.accountNumber
                     ELSE call'[p].source.accountNumber
                luhn == passesLuhn(n)
                brand == detectCardType(n) # "null"
                refused == pc'[p] = "idle" /\ ret'[p].issues # {}
            IN /\ refused <=> ~(luhn /\ brand)
               /\ ~luhn => InvalidMessage \in Messages(ret'[p].issues)
               /\ (luhn /\ ~brand) => Messages(ret'[p].issues) = {UnsupportedMessage}
               /\ refused => /\ ret'[p].code = "BAD_REQUEST"
                             /\ ret'[p].transaction = NoTx
                             /\ transactions' = transactions
                             /\ accounts' = accounts]_vars

\* A funding of the caller's own, already funded account with a Luhn-valid
\* card of no brand was refused with the "unsupported" message alone.
CardValidationWitness ==
  /\ last[1] = "FundAccountCheck"
  /\ ret[Caller].code = "BAD_REQUEST"
  /\ Messages(ret[Caller].issues) = {UnsupportedMessage}
  /\ \E a \in accounts : /\ a.id = ret[Caller].accountId
                         /\ a.userId = ret[Caller].userId
                         /\ a.balance # DZero
  /\ Len(transactions) = 1

\* The markup-escaped form of a text: < becomes &lt; and > becomes &gt;.
RECURSIVE EscapeMarkup(_)
EscapeMarkup(text) ==
  IF text = <<>> THEN <<>>
  ELSE (IF Head(text) = "<" THEN <<"&", "l", "t", ";">>
        ELSE IF Head(text) = ">" THEN <<"&", "g", "t", ";">>
        ELSE <<Head(text)>>) \o EscapeMarkup(Tail(text))

\* C19: getTransactions returns, for every stored transaction of the
\* account, its description with every < and > replaced by the escaped
\* equivalent, so that no returned description contains < or >, and leaves
\* the stored rows unchanged.
DescriptionsEscaped ==
  [][\A p \in Procs :
       (last'[1] \in {"GetTransactionsSelect", "GetTransactionsEnrich"}
          /\ last'[2] = p /\ pc'[p] = "idle" /\ ret'[p].code = "OK")
         => LET stored == TxOf(ret'[p].accountId)
                returned == ret'[p].transactions
            IN /\ Len(returned) = Len(stored)
               /\ \A i \in 1..Len(returned) :
                    /\ returned[i].description = EscapeMarkup(stored[i].description)
                    /\ \A k \in 1..Len(returned[i].description) :
                         returned[i].description[k] \notin {"<", ">"}
               /\ transactions' = transactions]_vars

\* The number formed by the first k digits of a digit string.
RECURSIVE LeadingNumber(_, _)
LeadingNumber(digits, k) ==
  IF k = 0 THEN 0
  ELSE 10 * LeadingNumber(digits, k - 1) + DigitValue(digits[k])

\* The brand of a digit string by leading digits and length; "null" when
\* it belongs to no brand.
BrandOf(digits) ==
  LET n == Len(digits)
      lead(k) == LeadingNumber(digits, k)
  IN IF lead(1) = 4 /\ n \in {13, 16, 19} THEN "visa"
     ELSE IF n = 16 /\ (lead(2) \in 51..55 \/ lead(4) \in 2221..2720) THEN "mastercard"
     ELSE IF n = 15 /\ lead(2) \in {34, 37} THEN "amex"
     ELSE IF n = 16 /\ (lead(4) = 6011 \/ lead(2) = 65 \/ lead(3) \in 644..649)
       THEN "discover"
     ELSE IF n = 16 /\ lead(4) \in 3528..3589 THEN "jcb"
     ELSE "null"

\* C20: detectCardType classifies a digit string by the brand of its
\* leading digits and length (visa: starts with 4 and 13, 16 or 19 digits;
\* mastercard: 16 digits starting 51-55 or 2221-2720; amex: 15 digits
\* starting 34 or 37; discover: 16 digits starting 6011, 65 or 644-649;
\* jcb: 16 digits starting 3528-3589; otherwise null), and the funding
\* form's copy returns the same result as the server's for every input.
CardTypeClassification ==
  \A p \in Procs :
    (ret[p].op = "fundingSource" /\ ret[p].source.type = CardFunding)
      => /\ ret[p].server.cardType = BrandOf(ret[p].source.accountNumber)
         /\ ret[p].modal.cardType # ""
              => ret[p].modal.cardType = ret[p].server.cardType

\* The decimal digits, and a text with its whitespace removed.
DecimalDigits == {"0", "1", "2", "3", "4", "5", "6", "7", "8", "9"}
WithoutWhitespace(text) == SelectSeq(text, LAMBDA c : c \notin {" ", "\t", "\n"})

\* The contribution of the digit at position i to the Luhn sum: the digits
\* at even positions counted from the rightmost are doubled and reduced by
\* 9 when above 9.
LuhnTerm(digits, i) ==
  LET value == DigitValue(digits[i])
      fromRight == Len(digits) - i + 1
  IN IF fromRight % 2 = 1 THEN value
     ELSE IF 2 * value > 9 THEN 2 * value - 9
     ELSE 2 * value

\* The Luhn sum of the first k digits' contributions.
RECURSIVE LuhnTotal(_, _)
LuhnTotal(digits, k) ==
  IF k = 0 THEN 0 ELSE LuhnTerm(digits, k) + LuhnTotal(digits, k - 1)

LuhnValid(input) ==
  LET digits == WithoutWhitespace(input)
  IN /\ Len(digits) \in 13..19
     /\ \A i \in 1..Len(digits) : digits[i] \in DecimalDigits
     /\ LuhnTotal(digits, Len(digits)) % 10 = 0

\* C21: passesLuhn returns true exactly for the inputs that, with their
\* whitespace removed, are 13 to 19 decimal digits whose Luhn sum is
\* divisible by 10, and false for every other input; the funding form's
\* copy returns the same on every value the form passes to it.
LuhnRule ==
  \A p \in Procs :
    (ret[p].op = "fundingSource" /\ ret[p].source.type = CardFunding)
      => /\ ret[p].server.luhn = BoolText(LuhnValid(ret[p].source.accountNumber))
         /\ ret[p].modal.luhn # ""
              => ret[p].modal.luhn = BoolText(LuhnValid(ret[p].source.accountNumber))

\* A number of 19 digits typed in groups, longer than 19 characters, passes
\* passesLuhn; the form stops it at the pattern rule and does not call its
\* copy.
LuhnWitness ==
  \E p \in Procs :
    /\ ret[p].op = "fundingSource"
    /\ ret[p].source.type = CardFunding
    /\ ret[p].server.luhn = "true"
    /\ ret[p].modal.luhn = ""
    /\ Len(ret[p].source.accountNumber) > 19
    /\ Len(WithoutWhitespace(ret[p].source.accountNumber)) = 19

\* C22: after a successful signup with email E and password P, a login
\* with the same E and P passes the credential check as the user the
\* signup created, also when E contains uppercase letters, and the session
\* it then issues is stored for that user.
LoginAfterSignupSucceeds ==
  [][/\ \A p \in Procs, e \in Emails, w \in Passwords :
         (/\ ret[p].op = "signup"
          /\ ret[p].code = "OK"
          /\ ret[p].input.email = e
          /\ ret[p].input.password = w
          /\ LoginCheck(p, e, w))
           => /\ pc'[p] = "li_compare"
              /\ call'[p].userId = ret[p].userId
     /\ \A p \in Procs :
         (/\ last' = <<"LoginCompare", p>>
          /\ \E u \in users : /\ u.id = call[p].userId
                               /\ Compare(call[p].password, u.password))
           => pc'[p] = "li_delete"
     /\ \A p \in Procs :
         (last' = <<"LoginCreateSession", p>> /\ ret'[p].code = "OK")
           => \E row \in sessions' :
                /\ row.userId = call[p].userId
                /\ row.token = ret'[p].token]_vars

(***************************************************************************)
(* Termination of createAccount.                                           *)
(***************************************************************************)
\* The numbers of the number space that no stored account has.
UnusedNumbers ==
  { n \in 0..(AcctNumSpace - 1) :
      \A a \in accounts : a.accountNumber # FormatAccountNumber(n) }

\* C23: a createAccount call that passed the one-account-per-type check
\* leaves its loop of draws and completes, under fair draws, as long as a
\* number of the number space is unused; the account it inserts has balance
\* 0, status active and a number of 10 digits, zero-padded.
CreateAccountCompletes ==
  /\ \A p \in Procs :
       (pc[p] = "ca_draw") ~> (pc[p] = "idle" \/ UnusedNumbers = {})
  /\ [][\A p \in Procs :
         (last' = <<"CreateAccountInsert", p>> /\ pc'[p] = "ca_fetch")
           => \E a \in accounts' \ accounts :
                /\ accounts' = accounts \cup {a}
                /\ a.userId = call[p].userId
                /\ a.accountType = call[p].accountType
                /\ a.balance = DZero
                /\ a.status = "active"
                /\ Len(a.accountNumber) = 10
                /\ \A i \in 1..10 : a.accountNumber[i] \in DecimalDigits
                /\ \E n \in 0..(AcctNumSpace - 1) :
                     /\ Len(NumToString(n)) < 10
                     /\ a.accountNumber
                          = [i \in 1..(10 - Len(NumToString(n))) |-> "0"] \o NumToString(n)]_vars

\* One call has completed and its account is stored; another call has drawn
\* the number of that account and has to draw again, with a number unused.
CreateAccountWitness ==
  \E p, q \in Procs :
    /\ p # q
    /\ ret[p].op = "createAccount"
    /\ ret[p].code = "OK"
    /\ pc[q] = "ca_draw"
    /\ \E a \in accounts : /\ a.id = ret[p].accountId
                            /\ a.accountNumber = call[q].accountNumber
    /\ UnusedNumbers # {}

====
